---- MODULE Spec2Model ----
(***************************************************************************)
(* The analysis workflow engine of strava-stats                            *)
(* (backend/services/chat_workflow.py) and the part of POST /query         *)
(* (backend/routes/analysis.py) that consumes its result.                  *)
(*                                                                         *)
(* Text is modelled by TLA+ strings; the string functions the code uses    *)
(* (lower, startswith, "in", re.sub, repr, base64) are operators computed  *)
(* character by character.                                                 *)
(***************************************************************************)
EXTENDS Integers, Sequences, FiniteSets, TLC

(***************************************************************************)
(* Bounds                                                                  *)
(***************************************************************************)
\* number of POST /query requests served one after the other
MaxRuns == 2

None == "<None>"

(***************************************************************************)
(* Text functions                                                          *)
(***************************************************************************)
CharAt(s, i) == SubSeq(s, i, i)

UpperLetters == "ABCDEFGHIJKLMNOPQRSTUVWXYZ"

LowerLetters == "abcdefghijklmnopqrstuvwxyz"

\* the lower-case letter of each upper-case letter
LowerOf ==
    [c \in {CharAt(UpperLetters, i) : i \in 1..26} |->
        CharAt(LowerLetters, CHOOSE i \in 1..26 : CharAt(UpperLetters, i) = c)]

\* str.lower() on one character
LowerChar(c) == IF c \in DOMAIN LowerOf THEN LowerOf[c] ELSE c

RECURSIVE Lower(_)
\* str.lower()
Lower(s) == IF Len(s) = 0 THEN "" ELSE LowerChar(CharAt(s, 1)) \o Lower(SubSeq(s, 2, Len(s)))

\* str.startswith(p)
StartsWith(s, p) == Len(s) >= Len(p) /\ SubSeq(s, 1, Len(p)) = p

\* p in s
Contains(s, p) == \E i \in 1..(Len(s) - Len(p) + 1) : SubSeq(s, i, i + Len(p) - 1) = p

\* the characters the regular expression class \s matches
Whitespace == {" ", "\t", "\n", "\r", "\f"}

\* the grave accent of a markdown code fence; the TLA+ lexer accepts no grave
\* accent inside a string, so the model writes that one character as "@"
\* (no other text of the model contains "@")
Backtick == "@"

Fence == Backtick \o Backtick \o Backtick

FenceChar(c) == c \in Whitespace \/ c = Backtick

RECURSIVE SkipWhile(_, _, _)
\* first position at or after i whose character is not a fence character
\* (ws = FALSE) or not whitespace (ws = TRUE)
SkipWhile(s, i, ws) ==
    IF i <= Len(s) /\ (IF ws THEN CharAt(s, i) \in Whitespace ELSE FenceChar(CharAt(s, i)))
    THEN SkipWhile(s, i + 1, ws)
    ELSE i

\* re.sub(r"^(\s|BACKTICK)*(?i:python)?\s*", "", s)
StripLeading(s) ==
    LET i == SkipWhile(s, 1, FALSE)
        j == IF Lower(SubSeq(s, i, i + 5)) = "python" /\ i + 5 <= Len(s) THEN i + 6 ELSE i
        k == SkipWhile(s, j, TRUE)
    IN  SubSeq(s, k, Len(s))

RECURSIVE StripTrailing(_)
\* re.sub(r"(\s|BACKTICK)*$", "", s)
StripTrailing(s) ==
    IF Len(s) > 0 /\ FenceChar(CharAt(s, Len(s)))
    THEN StripTrailing(SubSeq(s, 1, Len(s) - 1))
    ELSE s

\* the two re.sub calls the executors apply to the code before exec
StripFences(s) == StripTrailing(StripLeading(s))

B64Alphabet == "ABCDEFGHIJKLMNOPQRSTUVWXYZabcdefghijklmnopqrstuvwxyz0123456789+/"

B64Char(v) == CharAt(B64Alphabet, v + 1)

RECURSIVE B64Encode(_)
\* base64.b64encode(bytes).decode('utf-8'); bytes is a sequence of 0..255
B64Encode(bytes) ==
    LET n == Len(bytes)
        b1 == bytes[1]
        b2 == IF n >= 2 THEN bytes[2] ELSE 0
        b3 == IF n >= 3 THEN bytes[3] ELSE 0
        v  == b1 * 65536 + b2 * 256 + b3
    IN  IF n = 0 THEN ""
        ELSE B64Char(v \div 262144) \o B64Char((v \div 4096) % 64)
             \o (IF n >= 2 THEN B64Char((v \div 64) % 64) ELSE "=")
             \o (IF n >= 3 THEN B64Char(v % 64) ELSE "=")
             \o (IF n > 3 THEN B64Encode(SubSeq(bytes, 4, n)) ELSE "")

(***************************************************************************)
(* The LLM provider: client.chat.completions.create(...) either returns    *)
(* the text of choices[0].message.content or raises.  The texts each       *)
(* prompt can be answered with are drawn from the sets below.              *)
(***************************************************************************)
\* str(e) of the exception a failing provider call raises
ProviderErrors == {"timeout"}

Queries == {"total distance?", "chart of distance"}

EnhancerResponses == {"Sum the distance column"}

ClassifierResponses == {"chart", "data", "Chart."}

SumCode == "print(df['distance'].sum())"

DivCode == "print(1/0)"

\* code that prints the sum and then drops every row of the dataset in place
DropCode == "print(df['distance'].sum()); df.drop(df.index, inplace=True)"

SaveCode == "plt.plot(df['distance']); plt.savefig('chart.png'); plt.clf()"

\* chart code of another query: it plots another column
SavePaceCode == "plt.plot(df['pace']); plt.savefig('chart.png'); plt.clf()"

PlotCode == "plt.plot(df['distance'])"

TouchCode == "open('chart.png', 'w').close()"

BadCode == "print("

Fenced(c) == Fence \o "python\n" \o c \o "\n" \o Fence

\* code whose first characters are the letters "python", and what is left of
\* it without them
PyCode == "python_version = 3; print(python_version)"

PyCodeTail == "_version = 3; print(python_version)"

\* the language tags of a fence (the empty tag: a fence without one)
FenceTags == {"", "python", "Python", "PYTHON", "py"}

\* code as the provider answers it: bare (tag None) or inside a fence
Wrap(c, tag) == IF tag = None THEN c ELSE Fence \o tag \o "\n" \o c \o "\n" \o Fence

\* the code texts of the fence-stripping cases
FenceBodies == {SumCode, DivCode, PyCode, SaveCode, PlotCode, TouchCode}

ChartCodeResponses == {SaveCode, Fenced(SaveCode), PlotCode, DivCode, SumCode, TouchCode}

DataCodeResponses == {SumCode, Fenced(SumCode), DivCode, PlotCode, BadCode, DropCode}

FeedbackResponses == {"valid", "Valid", "VALID", "valid.", " valid", "valid\n", "invalid: use df"}

ChartFixResponses == {SaveCode, PlotCode}

DataFixResponses == {SumCode, DivCode}

SynthResponses == {"Total distance: 24.1 miles", ""}

\* the overview text run_workflow puts into the initial state
Overview == "The dataset is a pandas dataframe with the following columns: ..."

\* distances of the activities of the dataset, in tenths of a mile
Distances == <<31, 50, 100, 20, 40>>

(***************************************************************************)
(* exec(code, namespace): what the programs the provider can answer with   *)
(* do when executed.  hasPlt tells whether the namespace binds plt (the    *)
(* chart executor's does, the data executor's does not).  The result is    *)
(* the exception raised (or NoExc), the text written to sys.stdout, and     *)
(* the artifact file and the current figure after the execution.           *)
(***************************************************************************)
RECURSIVE SumSeq(_)
SumSeq(q) == IF q = <<>> THEN 0 ELSE Head(q) + SumSeq(Tail(q))

\* print(x) of a float with one decimal, plus the newline print appends
PrintTenths(n) == ToString(n \div 10) \o "." \o ToString(n % 10) \o "\n"

\* an exception: its class, the repr of its args, and its str
Exc(cls, args, msg) == [cls |-> cls, args |-> args, msg |-> msg]

\* no exception was raised
NoExc == Exc(None, None, None)

\* repr(e)
Repr(e) == e.cls \o "(" \o e.args \o ")"

\* str(e)
Str(e) == e.msg

PngMagic == <<137, 80, 78, 71>>

\* the bytes fig.savefig writes for a figure
PngOf(fig) == PngMagic \o <<CASE fig = "plot" -> 1 [] fig = "pace" -> 2 [] OTHER -> 0>>

\* the file chart.png
NoFile == [exists |-> FALSE, bytes |-> <<>>]

File(b) == [exists |-> TRUE, bytes |-> b]

IsComment(c) == StartsWith(c, "#") /\ ~Contains(c, "\n")

Outcome(exc, out, png, fig) == [exc |-> exc, stdout |-> out, png |-> png, fig |-> fig]

\* the rows of the dataset object after exec(c): the namespace entry 'df' is
\* the object itself, so an in-place operation of the code changes it
DataAfter(c, d) == IF c = DropCode THEN <<>> ELSE d

Exec(c, hasPlt, d, png, fig) ==
    IF c = "" \/ IsComment(c) THEN Outcome(NoExc, "", png, fig)
    ELSE IF c \in {SumCode, DropCode} THEN Outcome(NoExc, PrintTenths(SumSeq(d)), png, fig)
    ELSE IF c = DivCode
         THEN Outcome(Exc("ZeroDivisionError", "'division by zero'", "division by zero"),
                      "", png, fig)
    ELSE IF c = BadCode
         THEN Outcome(Exc("SyntaxError",
                          "\"'(' was never closed\", ('<string>', 1, 6, 'print(\\n', 1, 0)",
                          "'(' was never closed (<string>, line 1)"), "", png, fig)
    ELSE IF c = PyCode THEN Outcome(NoExc, "3\n", png, fig)
    ELSE IF c = PyCodeTail
         THEN Outcome(Exc("NameError", "\"name 'python_version' is not defined\"",
                          "name 'python_version' is not defined"), "", png, fig)
    ELSE IF StartsWith(c, "py\n")
         THEN Outcome(Exc("NameError", "\"name 'py' is not defined\"",
                          "name 'py' is not defined"), "", png, fig)
    ELSE IF c = TouchCode THEN Outcome(NoExc, "", File(<<>>), fig)
    ELSE IF c \in {SaveCode, SavePaceCode, PlotCode} /\ ~hasPlt
         THEN Outcome(Exc("NameError", "\"name 'plt' is not defined\"",
                          "name 'plt' is not defined"), "", png, fig)
    ELSE IF c = SaveCode THEN Outcome(NoExc, "", File(PngOf("plot")), "clear")
    ELSE IF c = SavePaceCode THEN Outcome(NoExc, "", File(PngOf("pace")), "clear")
    ELSE IF c = PlotCode THEN Outcome(NoExc, "", png, "plot")
    ELSE Outcome(Exc("SyntaxError", "'invalid syntax', ('<string>', 1, 1, '', 1, 1)",
                     "invalid syntax (<string>, line 1)"), "", png, fig)

(***************************************************************************)
(* State                                                                   *)
(***************************************************************************)
VARIABLES
    pc,                 \* the node the request is at
    state,              \* the WorkflowState of the running query
    df,                 \* the dataset object handed to run_workflow (state.df refers to it)
    chart_png,          \* the file chart.png: whether it exists, and its bytes
    gcf,                \* matplotlib's current figure: "clear" or "plot"
    trace,              \* the nodes executed by the running query, in order
    calls,              \* the provider calls made by the running query, in order
    writes,             \* <<node, field>> for every assignment to a state field
    executed,           \* what the executor ran: code, exception, printed text
    raised,             \* the node whose exception left run_workflow, or None
    result,             \* the record run_workflow returned (once pc is past "return")
    http,               \* the response of POST /query (once it is sent)
    current_chart_data, \* the module global of routes/analysis.py
    runs,               \* requests served so far
    prev,               \* history: the completed run the running query repeats, if any
    fence_case,         \* history: the code text and the wrapper of a fence-stripping case
    workers,            \* per server process: its chart request inside _graph_data
    artifact_log,       \* history: <<process, bytes>> of every write of chart.png by exec
    limiter,            \* RateLimitingService: query_counts, session_start_times, user_max_queries
    limiter_log,        \* history: the last call of the rate limiter and what it returned
    clock,              \* datetime.now(), in hours
    dm,                 \* DataManager: _user_data, _cached_user_stats, _cached_data_overview, _data_loaded_at
    supa,               \* SupabaseDataService: use_supabase and the tables user_data, user_cache
    store_log,          \* history: the last call of the data services and what it returned
    data_refresh_in_progress,  \* the module global of main.py
    refreshes           \* per request of POST /data/refresh: its position in the handler

\* the state of the chart executors of several server processes
worker_vars == <<workers, artifact_log>>

\* the state of the rate limiter
limiter_vars == <<limiter, limiter_log, clock>>

\* the state outside the workflow of one request
\* the state of the data services and of the refresh endpoint
store_vars == <<dm, supa, store_log, data_refresh_in_progress, refreshes>>

service_vars == <<worker_vars, limiter_vars, store_vars>>

\* the state of one request's workflow and its route
workflow_vars == <<pc, state, df, gcf, trace, calls, writes, executed, raised,
                   result, http, current_chart_data, runs, prev, fence_case>>

vars == <<pc, state, df, chart_png, gcf, trace, calls, writes, executed, raised,
          result, http, current_chart_data, runs, prev, fence_case, workers, artifact_log,
          limiter, limiter_log, clock, dm, supa, store_log, data_refresh_in_progress,
          refreshes>>

\* what the chart executors of the server processes leave alone
not_worker_vars == <<workflow_vars, limiter_vars, store_vars>>

\* what the rate limiter leaves alone
not_limiter_vars == <<workflow_vars, chart_png, worker_vars, store_vars>>

\* what the data services leave alone
not_store_vars == <<workflow_vars, worker_vars, limiter, limiter_log>>

\* WorkflowState as run_workflow builds it
InitialState(q) ==
    [messages |-> <<q>>, enhanced_query |-> None, df |-> "df", chart_code |-> None,
     chart_output |-> None, overview |-> Overview, code |-> None,
     output |-> None, response |-> None]

\* the content of the last message
LastQuery(st) == st.messages[Len(st.messages)]

\* nothing was executed yet
NotExecuted ==
    [ran |-> FALSE, code |-> None, exc |-> NoExc, stdout |-> "",
     file_read |-> "not_tried", mem_capture |-> "not_tried"]

\* run_workflow has not returned
NoResult ==
    [query |-> None, code_output |-> None, chart_generated |-> FALSE,
     chart_url |-> None, response |-> None, status |-> None]

\* POST /query has not answered
NoHttp ==
    [status_code |-> 0, response |-> None, chart_generated |-> FALSE,
     chart_url |-> None, chart_data |-> None, status |-> None]

\* the running query repeats no earlier run
NoPrev ==
    [active |-> FALSE, query |-> None, script |-> <<>>, read |-> None,
     code_output |-> None, chart_generated |-> FALSE]

\* no fence-stripping case
NoCase == [body |-> None, tag |-> None]

\* the server processes sharing one working directory
Workers == {"w1", "w2"}

\* a server process that is not inside _graph_data
IdleWorker ==
    [pc |-> "idle", chart_code |-> None, gcf |-> "clear", stdout |-> "",
     chart_output |-> None, read_at |-> 0]

\* the access tokens: the empty token and two sessions
Tokens == {"", "tokA", "tokB"}

\* a dictionary without entries
EmptyDict == [k \in {} |-> 0]

\* RateLimitingService.__init__
NewLimiter ==
    [query_counts |-> EmptyDict, session_start_times |-> EmptyDict,
     user_max_queries |-> EmptyDict]

\* history: no call of the rate limiter yet
NoLimiterCall ==
    [op |-> None, token |-> None, ret |-> None,
     allowed |-> [t \in Tokens |-> 0], was_reset |-> {}]

\* the users of the data services
UserIds == {"u1", "u2"}

\* an Optional value: Nothing is Python's None, Some(x) is the value x
Nothing == <<>>

Some(x) == <<x>>

\* the requests of POST /data/refresh
RefreshRequests == {"r1", "r2"}

\* history: no call of the data services yet
NoStoreCall ==
    [op |-> None, user |-> None, arg |-> Nothing, ret |-> Nothing, raised |-> None,
     cleared |-> {}, deleted |-> {}]

\* the data manager's class dictionaries are empty; SupabaseDataService.__init__
\* found the credentials of the backend (available) or did not; the tables
\* hold nothing yet
StoreInit(available) ==
    /\ dm = [user_data |-> EmptyDict, cached_user_stats |-> EmptyDict,
             cached_data_overview |-> EmptyDict, data_loaded_at |-> EmptyDict]
    /\ supa = [use_supabase |-> available, user_data |-> EmptyDict, user_cache |-> EmptyDict]
    /\ store_log = NoStoreCall
    /\ data_refresh_in_progress = FALSE
    /\ refreshes = [r \in RefreshRequests |-> "none"]

\* no request is in any chart executor, the rate limiter is new
ServicesInit ==
    /\ workers = [w \in Workers |-> IdleWorker]
    /\ artifact_log = <<>>
    /\ limiter = NewLimiter
    /\ limiter_log = NoLimiterCall
    /\ clock = 0

Init ==
    /\ pc = "idle"
    /\ state = InitialState("")
    /\ df = Distances
    /\ chart_png = NoFile
    /\ gcf = "clear"
    /\ trace = <<>>
    /\ calls = <<>>
    /\ writes = <<>>
    /\ executed = NotExecuted
    /\ raised = None
    /\ result = NoResult
    /\ http = NoHttp
    /\ current_chart_data = None
    /\ runs = 0
    /\ prev = NoPrev
    /\ fence_case = NoCase
    /\ ServicesInit
    /\ StoreInit(FALSE)

\* Edge with the two verifier edges swapped between the branches
EdgeCrossed(node) ==
    CASE node = "analyze_query"  -> "enhance_query"
      [] node = "enhance_query"  -> "route"
      [] node = "prepare_graphs" -> "verify_graphs"
      [] node = "prepare_data"   -> "verify_code"
      [] node = "verify_graphs"  -> "analyze_data"
      [] node = "verify_code"    -> "graph_data"
      [] node = "graph_data"     -> "final_response"
      [] node = "analyze_data"   -> "final_response"
      [] node = "final_response" -> "return"

\* the unconditional edges _build_workflow adds; "route" stands for the
\* conditional edge out of enhance_query and "return" for the END node
Edge(node) ==
    CASE node = "analyze_query"  -> "enhance_query"
      [] node = "enhance_query"  -> "route"
      [] node = "prepare_graphs" -> "verify_graphs"
      [] node = "prepare_data"   -> "verify_code"
      [] node = "verify_graphs"  -> "graph_data"
      [] node = "verify_code"    -> "analyze_data"
      [] node = "graph_data"     -> "final_response"
      [] node = "analyze_data"   -> "final_response"
      [] node = "final_response" -> "return"

\* the value _analyze_query_conditional returns for the classifier's answer
Route(r) == IF Contains(Lower(r), "chart") THEN "prepare_graphs" ELSE "prepare_data"

(***************************************************************************)
(* The prompts.  Each is the f-string of its node with the instructions    *)
(* shortened; every interpolated expression is kept.                       *)
(***************************************************************************)
\* str(b) of a bool
Bool(b) == IF b THEN "True" ELSE "False"

\* df.head().to_markdown(): the first five rows, one per line
RECURSIVE HeadMarkdown(_, _)
HeadMarkdown(d, n) ==
    IF n = 0 \/ d = <<>> THEN ""
    ELSE "| " \o ToString(Head(d)) \o " |\n" \o HeadMarkdown(Tail(d), n - 1)

\* the hint of the enhancer's prompt, from a keyword test on the query
NextStepHint(query) == IF Contains(Lower(query), "chart") THEN "graph_data" ELSE "analyze_data"

EnhancePrompt(st) ==
    "User query: " \o LastQuery(st) \o "\nOverview: " \o st.overview
    \o "\nYou need to enhance the query. The next step is " \o NextStepHint(LastQuery(st))
    \o ".\nReturn only the enhanced query."

ClassifyPrompt(st) ==
    "Determine if the query is about a chart or data analysis.\nUser query: "
    \o LastQuery(st) \o "\nReturn only the word \"chart\" or \"data\"."

GeneratePrompt(node, st, d) ==
    IF node = "prepare_graphs"
    THEN "Generate seaborn python code.\n" \o st.overview
         \o "\nDataset overview (top five rows): " \o HeadMarkdown(d, 5)
         \o "\ncreate a chart for the user query: " \o st.enhanced_query \o "."
    ELSE "Generate pandas python code. DO NOT GENERATE ANY GRAPHS.\n" \o st.overview
         \o "\ngenerate python code to answer the user query: " \o st.enhanced_query \o "."

VerifyPrompt(node, st, d) ==
    "Dataset overview (top five rows): " \o HeadMarkdown(d, 5)
    \o "\nUser query: " \o st.enhanced_query \o ".\nGenerated code: "
    \o (IF node = "verify_graphs" THEN st.chart_code ELSE st.code)
    \o "\nIf the code appears valid, return only the word \"valid\"."

CorrectPrompt(node, st, feedback) ==
    st.overview \o "\nUser query: " \o st.enhanced_query \o ".\nGenerated code: "
    \o (IF node = "verify_graphs" THEN st.chart_code ELSE st.code)
    \o "\nFeedback: " \o feedback \o "\nImprove the code with the feedback."

\* the synthesizer's prompt with the content of the execution results
SynthPromptVerbose(st) ==
    "Overview: " \o st.overview \o "\nGenerate a response to the user query."
    \o "\nCode output: " \o st.output
    \o "\nChart output: " \o st.chart_output
    \o "\nUser query: " \o LastQuery(st)

SynthPrompt(st) ==
    "Overview: " \o st.overview \o "\nGenerate a response to the user query."
    \o "\nCode output exists: " \o Bool(st.output # None)
    \o "\nChart output exists: " \o Bool(st.chart_output # None)
    \o "\nUser query: " \o LastQuery(st)

\* the prompt the node at pc builds for a call of the kind
Prompt(kind) ==
    CASE kind = "enhance" -> EnhancePrompt(state)
      [] kind = "classify" -> ClassifyPrompt(state)
      [] kind = "generate" -> GeneratePrompt(pc, state, df)
      [] kind = "verify" -> VerifyPrompt(pc, state, df)
      [] kind = "synthesize" -> SynthPrompt(state)

\* an entry of the provider call log: the kind of call, the prompt sent and
\* the text the provider answered with, or Raised
Raised == "<raised>"

Call(kind, response) == [kind |-> kind, prompt |-> Prompt(kind), response |-> response]

\* the log entry of a verifier's corrective call
Correction(feedback, response) ==
    [kind |-> "correct", prompt |-> CorrectPrompt(pc, state, feedback), response |-> response]

\* an entry of the write log: node wrote value to field
Write(node, field, value) == <<node, field, value>>

\* history: the k-th provider call from here answers as the call at the same
\* position of the run the running query repeats
Replays(k, response) ==
    prev.active =>
       (Len(calls) + k <= Len(prev.script) /\ prev.script[Len(calls) + k] = response)

\* history: the outcome of reading the artifact back in the last run
ReadOutcomeOf(ex) ==
    CASE ex.file_read = "ok" -> "ok"
      [] ex.mem_capture = "ok" -> "error_mem_ok"
      [] ex.mem_capture = "failed" -> "error_mem_failed"
      [] OTHER -> None

\* history: the run that just completed, to be repeated
Repeat ==
    [active |-> TRUE, query |-> result.query,
     script |-> [i \in 1..Len(calls) |-> calls[i].response],
     read |-> ReadOutcomeOf(executed),
     code_output |-> result.code_output, chart_generated |-> result.chart_generated]

\* an exception leaves the node, the graph and run_workflow
Raise(node) ==
    /\ pc' = "raised"
    /\ raised' = node

\* POST /query up to the call of run_workflow, and run_workflow up to
\* graph.invoke(initial_state)
run_workflow ==
    /\ pc = "idle"
    /\ runs < MaxRuns
    /\ \/ /\ \E q \in Queries : state' = InitialState(q)
          /\ prev' = NoPrev
       \/ \* the same query again, to be answered by the same provider responses
          /\ http.status_code = 200
          /\ state' = InitialState(result.query)
          /\ prev' = Repeat
    /\ pc' = "analyze_query"
    /\ runs' = runs + 1
    /\ trace' = <<>>
    /\ calls' = <<>>
    /\ writes' = <<>>
    /\ executed' = NotExecuted
    /\ raised' = None
    /\ result' = NoResult
    /\ http' = NoHttp
    /\ UNCHANGED <<df, chart_png, gcf, current_chart_data>>
    /\ UNCHANGED <<fence_case, service_vars>>

analyze_query ==
    /\ pc = "analyze_query"
    /\ trace' = Append(trace, "analyze_query")
    /\ pc' = Edge("analyze_query")
    /\ UNCHANGED <<state, df, chart_png, gcf, calls, writes, executed, raised,
                   result, http, current_chart_data, runs>>
    /\ UNCHANGED <<prev, fence_case, service_vars>>

enhance_query ==
    /\ pc = "enhance_query"
    /\ trace' = Append(trace, "enhance_query")
    /\ \/ \E r \in EnhancerResponses :
            /\ calls' = Append(calls, Call("enhance", r))
            /\ Replays(1, r)
            /\ state' = [state EXCEPT !.enhanced_query = r]
            /\ writes' = Append(writes, Write("enhance_query", "enhanced_query", r))
            /\ pc' = Edge("enhance_query")
            /\ UNCHANGED raised
       \/ \E e \in ProviderErrors :
            /\ calls' = Append(calls, Call("enhance", Raised))
            /\ Replays(1, Raised)
            /\ Raise("enhance_query")
            /\ UNCHANGED <<state, writes>>
    /\ UNCHANGED <<df, chart_png, gcf, executed, result, http, current_chart_data, runs>>
    /\ UNCHANGED <<prev, fence_case, service_vars>>

\* the conditional edge deciding by the keyword test of the enhancer's hint
analyze_query_conditional_keyword ==
    /\ pc = "route"
    /\ \/ \E r \in ClassifierResponses :
            /\ calls' = Append(calls, Call("classify", r))
            /\ Replays(1, r)
            /\ pc' = (IF NextStepHint(LastQuery(state)) = "graph_data"
                      THEN "prepare_graphs" ELSE "prepare_data")
            /\ UNCHANGED raised
       \/ \E e \in ProviderErrors :
            /\ calls' = Append(calls, Call("classify", Raised))
            /\ Replays(1, Raised)
            /\ Raise("analyze_query_conditional")
    /\ UNCHANGED <<state, df, chart_png, gcf, trace, writes, executed, result, http,
                   current_chart_data, runs>>
    /\ UNCHANGED <<prev, fence_case, service_vars>>

\* the conditional edge out of enhance_query
analyze_query_conditional ==
    /\ pc = "route"
    /\ \/ \E r \in ClassifierResponses :
            /\ calls' = Append(calls, Call("classify", r))
            /\ Replays(1, r)
            /\ pc' = Route(r)
            /\ UNCHANGED raised
       \/ \E e \in ProviderErrors :
            /\ calls' = Append(calls, Call("classify", Raised))
            /\ Replays(1, Raised)
            /\ Raise("analyze_query_conditional")
    /\ UNCHANGED <<state, df, chart_png, gcf, trace, writes, executed, result, http,
                   current_chart_data, runs>>
    /\ UNCHANGED <<prev, fence_case, service_vars>>

\* prepare without the try/except around the provider call
prepare_unguarded(node, field, responses, stub) ==
    /\ pc = node
    /\ trace' = Append(trace, node)
    /\ \/ \E r \in responses :
            /\ calls' = Append(calls, Call("generate", r))
            /\ Replays(1, r)
            /\ state' = [state EXCEPT ![field] = r]
            /\ writes' = Append(writes, Write(node, field, r))
            /\ pc' = Edge(node)
            /\ UNCHANGED raised
       \/ \E e \in ProviderErrors :
            /\ calls' = Append(calls, Call("generate", Raised))
            /\ Replays(1, Raised)
            /\ Raise(node)
            /\ UNCHANGED <<state, writes>>
    /\ UNCHANGED <<df, chart_png, gcf, executed, result, http, current_chart_data, runs>>
    /\ UNCHANGED <<prev, fence_case, service_vars>>

\* prepare storing the code of either branch in chart_code
prepare_into_chart_code(node, field, responses, stub) ==
    /\ pc = node
    /\ trace' = Append(trace, node)
    /\ \/ \E r \in responses :
            /\ calls' = Append(calls, Call("generate", r))
            /\ Replays(1, r)
            /\ state' = [state EXCEPT !.chart_code = r]
            /\ writes' = Append(writes, Write(node, "chart_code", r))
       \/ \E e \in ProviderErrors :
            /\ calls' = Append(calls, Call("generate", Raised))
            /\ Replays(1, Raised)
            /\ state' = [state EXCEPT !.chart_code = stub \o e]
            /\ writes' = Append(writes, Write(node, "chart_code", stub \o e))
    /\ pc' = Edge(node)
    /\ UNCHANGED <<df, chart_png, gcf, executed, raised, result, http,
                   current_chart_data, runs>>
    /\ UNCHANGED <<prev, fence_case, service_vars>>

\* both code generators: one provider call inside try/except
prepare(node, field, responses, stub) ==
    /\ pc = node
    /\ trace' = Append(trace, node)
    /\ \/ \E r \in responses :
            /\ calls' = Append(calls, Call("generate", r))
            /\ Replays(1, r)
            /\ state' = [state EXCEPT ![field] = r]
            /\ writes' = Append(writes, Write(node, field, r))
       \/ \E e \in ProviderErrors :
            /\ calls' = Append(calls, Call("generate", Raised))
            /\ Replays(1, Raised)
            /\ state' = [state EXCEPT ![field] = stub \o e]
            /\ writes' = Append(writes, Write(node, field, stub \o e))
    /\ pc' = Edge(node)
    /\ UNCHANGED <<df, chart_png, gcf, executed, raised, result, http,
                   current_chart_data, runs>>
    /\ UNCHANGED <<prev, fence_case, service_vars>>

\* what the provider answers a generator with: in a fence-stripping case the
\* code of the case in its wrapper
GeneratedCode(responses) ==
    IF fence_case = NoCase THEN responses ELSE {Wrap(fence_case.body, fence_case.tag)}

prepare_graphs ==
    prepare("prepare_graphs", "chart_code", GeneratedCode(ChartCodeResponses),
            "# Error generating chart code: ")

\* prepare_data whose placeholder is not a comment
prepare_data_bare_stub ==
    prepare("prepare_data", "code", GeneratedCode(DataCodeResponses),
            "Error generating code: ")

prepare_data ==
    prepare("prepare_data", "code", GeneratedCode(DataCodeResponses),
            "# Error generating code: ")

\* Accepts tolerating text around the token
AcceptsLoosely(feedback) == Contains(Lower(feedback), "valid")

\* the test the verifiers apply to the judgment
Accepts(feedback) == Lower(feedback) = "valid"

\* verify judging the corrected code again and correcting it a second time
verify_reverify(node, field, fixes) ==
    /\ pc = node
    /\ trace' = Append(trace, node)
    /\ \E feedback \in FeedbackResponses :
         IF Accepts(feedback)
         THEN /\ calls' = Append(calls, Call("verify", feedback))
              /\ Replays(1, feedback)
              /\ UNCHANGED <<state, writes>>
         ELSE \E r1 \in fixes, again \in FeedbackResponses, r2 \in fixes :
              IF Accepts(again)
              THEN /\ calls' = calls \o <<Call("verify", feedback), Correction(feedback, r1),
                                          Call("verify", again)>>
                   /\ state' = [state EXCEPT ![field] = r1]
                   /\ writes' = Append(writes, Write(node, field, r1))
              ELSE /\ calls' = calls \o <<Call("verify", feedback), Correction(feedback, r1),
                                          Call("verify", again), Correction(again, r2)>>
                   /\ state' = [state EXCEPT ![field] = r2]
                   /\ writes' = writes \o <<Write(node, field, r1), Write(node, field, r2)>>
    /\ pc' = Edge(node)
    /\ UNCHANGED <<df, chart_png, gcf, executed, raised, result, http, current_chart_data,
                   runs>>
    /\ UNCHANGED <<prev, fence_case, service_vars>>

\* both verifiers: a judgment call and, unless the judgment is accepted, a
\* corrective call whose response replaces the stored code
verify(node, field, fixes) ==
    /\ pc = node
    /\ trace' = Append(trace, node)
    /\ \/ \E feedback \in FeedbackResponses :
            IF Accepts(feedback)
            THEN /\ calls' = Append(calls, Call("verify", feedback))
                 /\ Replays(1, feedback)
                 /\ pc' = Edge(node)
                 /\ UNCHANGED <<state, writes, raised>>
            ELSE \/ \E r \in fixes :
                      /\ calls' = calls \o <<Call("verify", feedback), Correction(feedback, r)>>
                      /\ Replays(1, feedback) /\ Replays(2, r)
                      /\ state' = [state EXCEPT ![field] = r]
                      /\ writes' = Append(writes, Write(node, field, r))
                      /\ pc' = Edge(node)
                      /\ UNCHANGED raised
                 \/ \E e \in ProviderErrors :
                      /\ calls' = calls \o <<Call("verify", feedback), Correction(feedback, Raised)>>
                      /\ Replays(1, feedback) /\ Replays(2, Raised)
                      /\ Raise(node)
                      /\ UNCHANGED <<state, writes>>
       \/ \E e \in ProviderErrors :
            /\ calls' = Append(calls, Call("verify", Raised))
            /\ Replays(1, Raised)
            /\ Raise(node)
            /\ UNCHANGED <<state, writes>>
    /\ UNCHANGED <<df, chart_png, gcf, executed, result, http, current_chart_data, runs>>
    /\ UNCHANGED <<prev, fence_case, service_vars>>

verify_graphs == verify("verify_graphs", "chart_code", ChartFixResponses)

verify_code == verify("verify_code", "code", DataFixResponses)

\* what the chart executor finds when it reads chart.png back and, after a
\* failed read, saves the current figure to memory
ReadOutcomes == {"ok", "error_mem_ok", "error_mem_failed"}

\* the text _graph_data stores for the encoded artifact (None if there is none)
\* and the printed text
ChartOutput(chart_data, captured_output) ==
    IF chart_data # None /\ chart_data # ""
    THEN chart_data
    ELSE "Chart generation failed: "
         \o (IF captured_output # "" THEN captured_output ELSE "No output captured")

graph_data ==
    /\ pc = "graph_data"
    /\ trace' = Append(trace, "graph_data")
    /\ LET c == StripFences(state.chart_code)
           o == Exec(c, TRUE, df, chart_png, gcf)
       IN  /\ chart_png' = o.png
           /\ IF o.exc # NoExc
              THEN \* the outer except: the failure text carries str(e)
                   /\ state' = [state EXCEPT
                                  !.chart_output = "Error executing chart code: " \o Str(o.exc)]
                   /\ gcf' = o.fig
                   /\ executed' = [NotExecuted EXCEPT !.ran = TRUE, !.code = c, !.exc = o.exc]
              ELSE IF ~o.png.exists
              THEN \* "Chart file not found": chart_data stays None
                   /\ state' = [state EXCEPT !.chart_output = ChartOutput(None, o.stdout)]
                   /\ gcf' = o.fig
                   /\ executed' = [ran |-> TRUE, code |-> c, exc |-> NoExc,
                                   stdout |-> o.stdout, file_read |-> "absent",
                                   mem_capture |-> "not_tried"]
              ELSE \E r \in ReadOutcomes :
                   LET chart_data ==
                           CASE r = "ok" -> B64Encode(o.png.bytes)
                             [] r = "error_mem_ok" -> B64Encode(PngOf(o.fig))
                             [] r = "error_mem_failed" -> None
                   IN  /\ (prev.active /\ prev.read # None) => r = prev.read
                       /\ state' = [state EXCEPT
                                      !.chart_output = ChartOutput(chart_data, o.stdout)]
                       \* plt.clf() after a successful capture
                       /\ gcf' = IF r = "error_mem_ok" THEN "clear" ELSE o.fig
                       /\ executed' =
                            [ran |-> TRUE, code |-> c, exc |-> NoExc, stdout |-> o.stdout,
                             file_read |-> IF r = "ok" THEN "ok" ELSE "error",
                             mem_capture |-> CASE r = "ok" -> "not_tried"
                                               [] r = "error_mem_ok" -> "ok"
                                               [] r = "error_mem_failed" -> "failed"]
    /\ writes' = Append(writes, Write("graph_data", "chart_output", state'.chart_output))
    /\ pc' = Edge("graph_data")
    /\ df' = DataAfter(StripFences(state.chart_code), df)
    /\ UNCHANGED <<calls, raised, result, http, current_chart_data, runs>>
    /\ UNCHANGED <<prev, fence_case, service_vars>>

\* the text _analyze_data stores in output: what sys.stdout received while it
\* was redirected (the print(code) of the executor, then what the code
\* printed), or repr(e)
DataOutput(c, o) ==
    IF o.exc # NoExc THEN Repr(o.exc) ELSE (c \o "\n") \o o.stdout

\* analyze_data without the try/except around exec
analyze_data_unguarded ==
    /\ pc = "analyze_data"
    /\ trace' = Append(trace, "analyze_data")
    /\ LET c == StripFences(state.code)
           o == Exec(c, FALSE, df, chart_png, gcf)
       IN  /\ chart_png' = o.png
           /\ gcf' = o.fig
           /\ executed' = [NotExecuted EXCEPT !.ran = TRUE, !.code = c, !.exc = o.exc,
                                              !.stdout = o.stdout]
           /\ IF o.exc # NoExc
              THEN /\ Raise("analyze_data")
                   /\ UNCHANGED <<state, writes>>
              ELSE /\ state' = [state EXCEPT !.output = DataOutput(c, o)]
                   /\ writes' = Append(writes, Write("analyze_data", "output", state'.output))
                   /\ pc' = Edge("analyze_data")
                   /\ UNCHANGED raised
    /\ df' = DataAfter(StripFences(state.code), df)
    /\ UNCHANGED <<calls, result, http, current_chart_data, runs>>
    /\ UNCHANGED <<prev, fence_case, service_vars>>

analyze_data ==
    /\ pc = "analyze_data"
    /\ trace' = Append(trace, "analyze_data")
    /\ LET c == StripFences(state.code)
           o == Exec(c, FALSE, df, chart_png, gcf)
       IN  /\ chart_png' = o.png
           /\ gcf' = o.fig
           /\ state' = [state EXCEPT !.output = DataOutput(c, o)]
           /\ executed' = [NotExecuted EXCEPT !.ran = TRUE, !.code = c, !.exc = o.exc,
                                              !.stdout = o.stdout]
    /\ writes' = Append(writes, Write("analyze_data", "output", state'.output))
    /\ pc' = Edge("analyze_data")
    /\ df' = DataAfter(StripFences(state.code), df)
    /\ UNCHANGED <<calls, raised, result, http, current_chart_data, runs>>
    /\ UNCHANGED <<prev, fence_case, service_vars>>

final_response ==
    /\ pc = "final_response"
    /\ trace' = Append(trace, "final_response")
    /\ \/ \E r \in SynthResponses :
            /\ calls' = Append(calls, Call("synthesize", r))
            /\ Replays(1, r)
            /\ state' = [state EXCEPT !.response = r]
            /\ writes' = Append(writes, Write("final_response", "response", r))
            /\ pc' = Edge("final_response")
            /\ UNCHANGED raised
       \/ \E e \in ProviderErrors :
            /\ calls' = Append(calls, Call("synthesize", Raised))
            /\ Replays(1, Raised)
            /\ Raise("final_response")
            /\ UNCHANGED <<state, writes>>
    /\ UNCHANGED <<df, chart_png, gcf, executed, result, http, current_chart_data, runs>>
    /\ UNCHANGED <<prev, fence_case, service_vars>>

\* ChartGenerated testing only the first failure prefix
ChartGeneratedOnePrefix(chart_output) ==
    /\ chart_output # None
    /\ ~StartsWith(chart_output, "Chart generation failed")

\* the success test run_workflow applies to the final chart_output
ChartGenerated(chart_output) ==
    /\ chart_output # None
    /\ ~StartsWith(chart_output, "Chart generation failed")
    /\ ~StartsWith(chart_output, "Error executing chart code")

\* the record run_workflow returns
ResultRecord(final_state) ==
    [query |-> LastQuery(final_state),
     code_output |-> final_state.output,
     chart_generated |-> ChartGenerated(final_state.chart_output),
     chart_url |-> IF ChartGenerated(final_state.chart_output) THEN "/chart.png" ELSE None,
     response |-> final_state.response,
     status |-> "success"]

\* run_workflow after graph.invoke returned
run_workflow_return ==
    /\ pc = "return"
    /\ result' = ResultRecord(state)
    /\ pc' = "returned"
    /\ UNCHANGED <<state, df, chart_png, gcf, trace, calls, writes, executed, raised,
                   http, current_chart_data, runs>>
    /\ UNCHANGED <<prev, fence_case, service_vars>>

\* dict.get(key): None for a key the record does not have
Get(rec, key) == IF key \in DOMAIN rec THEN rec[key] ELSE None

\* the response process_query builds from the record
QueryResponse(res) ==
    IF res.chart_generated
    THEN [status_code |-> 200,
          response |-> IF res.response # "" THEN res.response ELSE "View the chart below.",
          chart_generated |-> TRUE, chart_url |-> "/chart",
          chart_data |-> Get(res, "chart_output"), status |-> "success"]
    ELSE [status_code |-> 200,
          response |-> IF res.response # "" THEN res.response
                       ELSE "Analysis completed but no specific output was generated.",
          chart_generated |-> FALSE, chart_url |-> None,
          chart_data |-> None, status |-> "success"]

\* POST /query after run_workflow returned
process_query ==
    /\ pc = "returned"
    /\ http' = QueryResponse(result)
    /\ current_chart_data' = IF result.chart_generated THEN Get(result, "chart_output") ELSE None
    /\ pc' = "idle"
    /\ UNCHANGED <<state, df, chart_png, gcf, trace, calls, writes, executed, raised,
                   result, runs>>
    /\ UNCHANGED <<prev, fence_case, service_vars>>

\* POST /query when run_workflow raised: except Exception -> HTTP 500
process_query_error ==
    /\ pc = "raised"
    /\ http' = [NoHttp EXCEPT !.status_code = 500]
    /\ pc' = "idle"
    /\ UNCHANGED <<state, df, chart_png, gcf, trace, calls, writes, executed, raised,
                   result, current_chart_data, runs>>
    /\ UNCHANGED <<prev, fence_case, service_vars>>

Next ==
    \/ run_workflow \/ analyze_query \/ enhance_query \/ analyze_query_conditional
    \/ prepare_graphs \/ prepare_data \/ verify_graphs \/ verify_code
    \/ graph_data \/ analyze_data \/ final_response \/ run_workflow_return
    \/ process_query \/ process_query_error

Spec == Init /\ [][Next]_vars

\* The fence-stripping cases: the last request the process serves, with a
\* code text and a wrapper chosen for the generator's response.
InitStrip ==
    /\ pc = "idle"
    /\ state = InitialState("")
    /\ df = Distances
    /\ chart_png = NoFile
    /\ gcf = "clear"
    /\ trace = <<>>
    /\ calls = <<>>
    /\ writes = <<>>
    /\ executed = NotExecuted
    /\ raised = None
    /\ result = NoResult
    /\ http = NoHttp
    /\ current_chart_data = None
    /\ runs = MaxRuns - 1
    /\ prev = NoPrev
    /\ fence_case \in [body : FenceBodies, tag : FenceTags \cup {None}]
    /\ ServicesInit
    /\ StoreInit(FALSE)

SpecStrip == InitStrip /\ [][Next]_vars

(***************************************************************************)
(* Chart requests in several server processes.  Inside one process the     *)
(* handlers are coroutines that never await while the workflow runs, so    *)
(* requests of one process do not interleave; processes started in the     *)
(* same working directory share the path chart.png and nothing else.  Each *)
(* process is followed through _graph_data only: the exec of the chart     *)
(* code, then the read-back of the artifact.                               *)
(***************************************************************************)
\* the chart code a request can reach _graph_data with
WorkerCodes == {SaveCode, SavePaceCode, PlotCode, DivCode}

\* exec(c) in the chart namespace writes chart.png
WritesArtifact(c, fig) == Exec(c, TRUE, Distances, NoFile, fig).png.exists

\* a request of process w reaches _graph_data
worker_request(w) ==
    /\ workers[w].pc = "idle"
    /\ \E c \in WorkerCodes :
          workers' = [workers EXCEPT ![w] = [IdleWorker EXCEPT !.pc = "graph_data",
                                                               !.chart_code = c]]
    /\ UNCHANGED <<chart_png, artifact_log, not_worker_vars>>

\* _graph_data up to and including exec(code, namespace)
worker_exec(w) ==
    /\ workers[w].pc = "graph_data"
    /\ LET c == StripFences(workers[w].chart_code)
           o == Exec(c, TRUE, Distances, chart_png, workers[w].gcf)
       IN  /\ chart_png' = o.png
           /\ artifact_log' = IF WritesArtifact(c, workers[w].gcf)
                               THEN Append(artifact_log, <<w, o.png.bytes>>)
                               ELSE artifact_log
           /\ workers' = [workers EXCEPT ![w] =
                 IF o.exc # NoExc
                 THEN [@ EXCEPT !.pc = "done", !.gcf = o.fig,
                                !.chart_output = "Error executing chart code: " \o Str(o.exc)]
                 ELSE [@ EXCEPT !.pc = "read_back", !.gcf = o.fig, !.stdout = o.stdout]]
    /\ UNCHANGED not_worker_vars

\* the read-back finding the file the process itself wrote last
worker_read_back_private(w) ==
    /\ workers[w].pc = "read_back"
    /\ LET mine == SelectSeq(artifact_log, LAMBDA e : e[1] = w)
       IN  IF mine = <<>>
           THEN workers' = [workers EXCEPT ![w] =
                     [@ EXCEPT !.pc = "done", !.read_at = Len(artifact_log),
                               !.chart_output = ChartOutput(None, workers[w].stdout)]]
           ELSE workers' = [workers EXCEPT ![w] =
                     [@ EXCEPT !.pc = "done", !.read_at = Len(artifact_log),
                               !.chart_output =
                                   ChartOutput(B64Encode(mine[Len(mine)][2]), workers[w].stdout)]]
    /\ UNCHANGED <<chart_png, artifact_log, not_worker_vars>>

\* _graph_data after exec: the read-back of chart.png, the capture of the
\* current figure after a failed read, and the assignment of chart_output
worker_read_back(w) ==
    /\ workers[w].pc = "read_back"
    /\ IF ~chart_png.exists
       THEN workers' = [workers EXCEPT ![w] =
                 [@ EXCEPT !.pc = "done", !.read_at = Len(artifact_log),
                           !.chart_output = ChartOutput(None, workers[w].stdout)]]
       ELSE \E r \in ReadOutcomes :
              LET chart_data ==
                      CASE r = "ok" -> B64Encode(chart_png.bytes)
                        [] r = "error_mem_ok" -> B64Encode(PngOf(workers[w].gcf))
                        [] r = "error_mem_failed" -> None
              IN  workers' = [workers EXCEPT ![w] =
                      [@ EXCEPT !.pc = "done",
                                !.read_at = IF r = "ok" THEN Len(artifact_log) ELSE 0,
                                !.gcf = IF r = "error_mem_ok" THEN "clear" ELSE @,
                                !.chart_output = ChartOutput(chart_data, workers[w].stdout)]]
    /\ UNCHANGED <<chart_png, artifact_log, not_worker_vars>>

NextWorkers ==
    \E w \in Workers : worker_request(w) \/ worker_exec(w) \/ worker_read_back(w)

SpecWorkers == Init /\ [][NextWorkers]_vars

(***************************************************************************)
(* RateLimitingService                                                     *)
(***************************************************************************)
\* max_queries of the global instance, and the limit of the special user
MaxQueries == 3

SpecialMaxQueries == 30

\* the latest hour of the clock
MaxTime == 1

\* what _get_user_profile_name can return for a token: the full name of the
\* athlete, or None when the profile cannot be fetched
ProfileNames(t) ==
    IF t = "tokA" THEN {"Seamus Sutula", None} ELSE {"Jane Doe", None}

\* d with d[k] = v
Put(d, k, v) == [x \in DOMAIN d \cup {k} |-> IF x = k THEN v ELSE d[x]]

\* d without the key k
Del(d, k) == [x \in DOMAIN d \ {k} |-> d[x]]

\* dict.get(k, default)
GetOr(d, k, default) == IF k \in DOMAIN d THEN d[k] ELSE default

\* _get_user_max_queries: the limit of the token, given the profile name a
\* fetch would return
UserMaxQueries(lim, t, name) ==
    IF t \in DOMAIN lim.user_max_queries THEN lim.user_max_queries[t]
    ELSE IF name = "Seamus Sutula" THEN SpecialMaxQueries ELSE MaxQueries

\* the limiter after _get_user_max_queries cached the limit
CacheLimit(lim, t, name) ==
    [lim EXCEPT !.user_max_queries = Put(@, t, UserMaxQueries(lim, t, name))]

\* the comparison of can_make_query admitting a count equal to the limit
BelowLimitInclusive(count, max) == count <= max

\* the comparison of can_make_query
BelowLimit(count, max) == count < max

\* history: the call and what it returned
LimiterCall(op, t, ret) == [limiter_log EXCEPT !.op = op, !.token = t, !.ret = ret]

can_make_query(t) ==
    /\ IF t = ""
       THEN /\ limiter' = limiter
            /\ limiter_log' = LimiterCall("can_make_query", t, "False")
       ELSE \E name \in ProfileNames(t) :
            /\ limiter' = CacheLimit(limiter, t, name)
            /\ limiter_log' = LimiterCall("can_make_query", t,
                   Bool(BelowLimit(GetOr(limiter.query_counts, t, 0),
                                   UserMaxQueries(limiter, t, name))))
    /\ UNCHANGED <<clock, not_limiter_vars>>

\* record_query counting a rejected query
record_query_counts_rejected(t) ==
    /\ IF t = ""
       THEN /\ limiter' = limiter
            /\ limiter_log' = LimiterCall("record_query", t, "False")
       ELSE \E name \in ProfileNames(t) :
            LET new == t \notin DOMAIN limiter.query_counts
                started == IF new
                           THEN [limiter EXCEPT
                                   !.query_counts = Put(@, t, 0),
                                   !.session_start_times = Put(@, t, clock)]
                           ELSE limiter
                max == UserMaxQueries(started, t, name)
                cached == CacheLimit(started, t, name)
                ok == BelowLimit(cached.query_counts[t], max)
            IN  /\ limiter' = [cached EXCEPT !.query_counts[t] = @ + 1]
                /\ limiter_log' =
                      [LimiterCall("record_query", t, Bool(ok)) EXCEPT
                         !.allowed[t] = IF ok THEN @ + 1 ELSE @]
    /\ UNCHANGED <<clock, not_limiter_vars>>

record_query(t) ==
    /\ IF t = ""
       THEN /\ limiter' = limiter
            /\ limiter_log' = LimiterCall("record_query", t, "False")
       ELSE \E name \in ProfileNames(t) :
            LET new == t \notin DOMAIN limiter.query_counts
                started == IF new
                           THEN [limiter EXCEPT
                                   !.query_counts = Put(@, t, 0),
                                   !.session_start_times = Put(@, t, clock)]
                           ELSE limiter
                max == UserMaxQueries(started, t, name)
                cached == CacheLimit(started, t, name)
                ok == BelowLimit(cached.query_counts[t], max)
            IN  /\ limiter' = IF ok THEN [cached EXCEPT !.query_counts[t] = @ + 1]
                                    ELSE cached
                /\ limiter_log' =
                      [LimiterCall("record_query", t, Bool(ok)) EXCEPT
                         !.allowed[t] = IF ok THEN @ + 1 ELSE @]
    /\ UNCHANGED <<clock, not_limiter_vars>>

get_remaining_queries(t) ==
    /\ IF t = ""
       THEN /\ limiter' = limiter
            /\ limiter_log' = LimiterCall("get_remaining_queries", t, "0")
       ELSE \E name \in ProfileNames(t) :
            LET left == UserMaxQueries(limiter, t, name) - GetOr(limiter.query_counts, t, 0)
            IN  /\ limiter' = CacheLimit(limiter, t, name)
                /\ limiter_log' = LimiterCall("get_remaining_queries", t,
                                               ToString(IF left > 0 THEN left ELSE 0))
    /\ UNCHANGED <<clock, not_limiter_vars>>

get_query_count(t) ==
    /\ limiter' = limiter
    /\ limiter_log' = LimiterCall("get_query_count", t,
                          IF t = "" THEN "0" ELSE ToString(GetOr(limiter.query_counts, t, 0)))
    /\ UNCHANGED <<clock, not_limiter_vars>>

\* reset_user_queries leaving the cached limit of the token
reset_user_queries_keeps_limit(t) ==
    /\ limiter' = [limiter EXCEPT !.query_counts = Del(@, t),
                                  !.session_start_times = Del(@, t)]
    /\ limiter_log' = [LimiterCall("reset_user_queries", t, None) EXCEPT
                         !.allowed[t] = 0, !.was_reset = @ \cup {t}]
    /\ UNCHANGED <<clock, not_limiter_vars>>

reset_user_queries(t) ==
    /\ limiter' = [limiter EXCEPT !.query_counts = Del(@, t),
                                  !.session_start_times = Del(@, t),
                                  !.user_max_queries = Del(@, t)]
    /\ limiter_log' = [LimiterCall("reset_user_queries", t, None) EXCEPT
                         !.allowed[t] = 0, !.was_reset = @ \cup {t}]
    /\ UNCHANGED <<clock, not_limiter_vars>>

\* the returned dictionary is built from the same reads as the other status
\* calls; the history keeps its rate_limited entry
get_session_info(t) ==
    /\ IF t = ""
       THEN /\ limiter' = limiter
            /\ limiter_log' = LimiterCall("get_session_info", t, "True")
       ELSE \E name \in ProfileNames(t) :
            /\ limiter' = CacheLimit(limiter, t, name)
            /\ limiter_log' = LimiterCall("get_session_info", t,
                   Bool(GetOr(limiter.query_counts, t, 0) >= UserMaxQueries(limiter, t, name)))
    /\ UNCHANGED <<clock, not_limiter_vars>>

\* cleanup_old_sessions(max_age_hours): every session that started before
\* the cutoff is reset
cleanup_old_sessions(max_age_hours) ==
    LET old == {t \in DOMAIN limiter.session_start_times :
                   limiter.session_start_times[t] < clock - max_age_hours}
        keep(d) == [x \in DOMAIN d \ old |-> d[x]]
    IN  /\ limiter' = [query_counts |-> keep(limiter.query_counts),
                        session_start_times |-> keep(limiter.session_start_times),
                        user_max_queries |-> keep(limiter.user_max_queries)]
        /\ limiter_log' =
              [LimiterCall("cleanup_old_sessions", None, ToString(Cardinality(old))) EXCEPT
                 !.allowed = [t \in Tokens |-> IF t \in old THEN 0 ELSE @[t]],
                 !.was_reset = @ \cup old]
        /\ UNCHANGED <<clock, not_limiter_vars>>

\* an hour passes
tick ==
    /\ clock < MaxTime
    /\ clock' = clock + 1
    /\ UNCHANGED <<limiter, limiter_log, not_limiter_vars>>

NextLimiter ==
    \/ \E t \in Tokens : can_make_query(t)
    \/ \E t \in Tokens : record_query(t)
    \/ \E t \in Tokens : get_remaining_queries(t)
    \/ \E t \in Tokens : get_query_count(t)
    \/ \E t \in Tokens : reset_user_queries(t)
    \/ \E t \in Tokens : get_session_info(t)
    \/ cleanup_old_sessions(0)
    \/ tick

SpecLimiter == Init /\ [][NextLimiter]_vars

(***************************************************************************)
(* The data services: DataManager over the persistence backend.  Every     *)
(* request to the backend either succeeds (ok) or raises inside the        *)
(* service, which then logs the error and returns its failure value.       *)
(***************************************************************************)
\* start_date_local of three activities, as the Strava API writes them
Date1 == "2025-07-01T08:00:00Z"

Date2 == "2025-07-02T08:00:00Z"

Date3 == "2025-07-03T08:00:00Z"

\* a row of the processed dataset: the columns the data services look at
Row(i, d) == [id |-> i, start_date_local |-> d]

\* the datasets handed to set_processed_data, most recent activity first
DataSets == {<<Row(1, Date1)>>, <<Row(2, Date2), Row(1, Date1)>>}

\* what an endpoint computes from a dataset and caches
CacheOf(data) == [total_activities |-> Len(data)]

CacheValues == {CacheOf(data) : data \in DataSets}

\* the user ids a caller may pass: the users and the empty id
UserArgs == UserIds \cup {""}

\* the last call of the data services, its return value and what it raised;
\* arg is for what the call read from outside
StoreCall(op, u, ret, exc) ==
    [store_log EXCEPT !.op = op, !.user = u, !.arg = Nothing, !.ret = ret, !.raised = exc]

\* SupabaseDataService.store_user_data: upsert of the user's row
store_user_data(s, u, data, ok) ==
    IF s.use_supabase /\ ok THEN [s EXCEPT !.user_data = Put(@, u, data)] ELSE s

\* SupabaseDataService.get_user_data: the user's row, or None
get_user_data(s, u, ok) ==
    IF s.use_supabase /\ ok /\ u \in DOMAIN s.user_data THEN Some(s.user_data[u]) ELSE Nothing

\* SupabaseDataService.store_cached_stats and store_cached_overview: upsert of
\* the user's row of the cache type
store_cached(s, u, cache_type, value, ok) ==
    IF s.use_supabase /\ ok THEN [s EXCEPT !.user_cache = Put(@, <<u, cache_type>>, value)] ELSE s

\* SupabaseDataService.get_cached_stats and get_cached_overview
get_cached(s, u, cache_type, ok) ==
    IF s.use_supabase /\ ok /\ <<u, cache_type>> \in DOMAIN s.user_cache
    THEN Some(s.user_cache[<<u, cache_type>>])
    ELSE Nothing

\* the four assignments of set_processed_data
SetUserData(d, data, u, now) ==
    [user_data |-> Put(d.user_data, u, data),
     cached_user_stats |-> Put(d.cached_user_stats, u, Nothing),
     cached_data_overview |-> Put(d.cached_data_overview, u, Nothing),
     data_loaded_at |-> Put(d.data_loaded_at, u, now)]

set_processed_data(data, u) ==
    /\ IF u = ""
       THEN /\ store_log' = StoreCall("set_processed_data", u, Nothing, "ValueError")
            /\ UNCHANGED <<dm, supa>>
       ELSE \E ok \in BOOLEAN :
            /\ dm' = SetUserData(dm, data, u, clock)
            /\ supa' = store_user_data(supa, u, data, ok)
            /\ store_log' = [StoreCall("set_processed_data", u, Nothing, None) EXCEPT
                               !.cleared = @ \cup {u}, !.deleted = @ \ {u}]
    /\ UNCHANGED <<clock, chart_png, data_refresh_in_progress, refreshes, not_store_vars>>

\* get_processed_data: memory first, then the backend, whose data it keeps
get_processed_data(u) ==
    /\ IF u = ""
       THEN /\ store_log' = StoreCall("get_processed_data", u, Nothing, "ValueError")
            /\ UNCHANGED <<dm, supa>>
       ELSE IF u \in DOMAIN dm.user_data
       THEN /\ store_log' = StoreCall("get_processed_data", u, Some(dm.user_data[u]), None)
            /\ UNCHANGED <<dm, supa>>
       ELSE \E ok \in BOOLEAN :
            LET data == get_user_data(supa, u, ok)
            IN  /\ dm' = IF data = Nothing
                         THEN dm
                         ELSE [dm EXCEPT !.user_data = Put(@, u, data[1]),
                                         !.data_loaded_at = Put(@, u, clock)]
                /\ store_log' = StoreCall("get_processed_data", u, data, None)
                /\ supa' = supa
    /\ UNCHANGED <<clock, chart_png, data_refresh_in_progress, refreshes, not_store_vars>>

has_data(u) ==
    /\ store_log' = StoreCall("has_data", u,
                        Some(u \in DOMAIN dm.user_data /\ dm.user_data[u] # <<>>), None)
    /\ UNCHANGED <<dm, supa, clock, chart_png, data_refresh_in_progress, refreshes,
                   not_store_vars>>

\* the dictionaries after clear_data(user_id); without a user id all users go
ClearData(d, u) ==
    IF u # ""
    THEN [user_data |-> Del(d.user_data, u),
          cached_user_stats |-> Del(d.cached_user_stats, u),
          cached_data_overview |-> Del(d.cached_data_overview, u),
          data_loaded_at |-> Del(d.data_loaded_at, u)]
    ELSE [user_data |-> EmptyDict, cached_user_stats |-> EmptyDict,
          cached_data_overview |-> EmptyDict, data_loaded_at |-> EmptyDict]

clear_data(u) ==
    /\ dm' = ClearData(dm, u)
    /\ store_log' = StoreCall("clear_data", u, Nothing, None)
    /\ UNCHANGED <<supa, clock, chart_png, data_refresh_in_progress, refreshes,
                   not_store_vars>>

set_cached_user_stats(stats, u) ==
    \E ok \in BOOLEAN :
    /\ dm' = [dm EXCEPT !.cached_user_stats = Put(@, u, Some(stats))]
    /\ supa' = store_cached(supa, u, "user_stats", stats, ok)
    /\ store_log' = [StoreCall("set_cached_user_stats", u, Nothing, None) EXCEPT
                       !.cleared = @ \ {u}]
    /\ UNCHANGED <<clock, chart_png, data_refresh_in_progress, refreshes, not_store_vars>>

\* get_cached_user_stats: memory unless it holds None, then the backend,
\* whose value it keeps
get_cached_user_stats(u) ==
    /\ IF u \in DOMAIN dm.cached_user_stats /\ dm.cached_user_stats[u] # Nothing
       THEN /\ store_log' = StoreCall("get_cached_user_stats", u, dm.cached_user_stats[u], None)
            /\ dm' = dm
       ELSE \E ok \in BOOLEAN :
            LET stats == get_cached(supa, u, "user_stats", ok)
            IN  /\ dm' = IF stats = Nothing
                         THEN dm
                         ELSE [dm EXCEPT !.cached_user_stats = Put(@, u, stats)]
                /\ store_log' = StoreCall("get_cached_user_stats", u, stats, None)
    /\ UNCHANGED <<supa, clock, chart_png, data_refresh_in_progress, refreshes,
                   not_store_vars>>

set_cached_data_overview(overview, u) ==
    \E ok \in BOOLEAN :
    /\ dm' = [dm EXCEPT !.cached_data_overview = Put(@, u, Some(overview))]
    /\ supa' = store_cached(supa, u, "data_overview", overview, ok)
    /\ store_log' = [StoreCall("set_cached_data_overview", u, Nothing, None) EXCEPT
                       !.cleared = @ \ {u}]
    /\ UNCHANGED <<clock, chart_png, data_refresh_in_progress, refreshes, not_store_vars>>

get_cached_data_overview(u) ==
    /\ IF u \in DOMAIN dm.cached_data_overview /\ dm.cached_data_overview[u] # Nothing
       THEN /\ store_log' = StoreCall("get_cached_data_overview", u,
                                dm.cached_data_overview[u], None)
            /\ dm' = dm
       ELSE \E ok \in BOOLEAN :
            LET overview == get_cached(supa, u, "data_overview", ok)
            IN  /\ dm' = IF overview = Nothing
                         THEN dm
                         ELSE [dm EXCEPT !.cached_data_overview = Put(@, u, overview)]
                /\ store_log' = StoreCall("get_cached_data_overview", u, overview, None)
    /\ UNCHANGED <<supa, clock, chart_png, data_refresh_in_progress, refreshes,
                   not_store_vars>>

\* the process starts with the backend configured or not
InitData ==
    /\ pc = "idle"
    /\ state = InitialState("")
    /\ df = Distances
    /\ chart_png = NoFile
    /\ gcf = "clear"
    /\ trace = <<>>
    /\ calls = <<>>
    /\ writes = <<>>
    /\ executed = NotExecuted
    /\ raised = None
    /\ result = NoResult
    /\ http = NoHttp
    /\ current_chart_data = None
    /\ runs = 0
    /\ prev = NoPrev
    /\ fence_case = NoCase
    /\ ServicesInit
    /\ \E available \in BOOLEAN : StoreInit(available)

\* the user the cache interface is called for
CacheUsers == {"u1"}

\* the data manager's cache interface, called for one user
NextCache ==
    \/ \E data \in DataSets, u \in CacheUsers \cup {""} : set_processed_data(data, u)
    \/ \E stats \in CacheValues, u \in CacheUsers : set_cached_user_stats(stats, u)
    \/ \E u \in CacheUsers : get_cached_user_stats(u)
    \/ \E overview \in CacheValues, u \in CacheUsers : set_cached_data_overview(overview, u)
    \/ \E u \in CacheUsers : get_cached_data_overview(u)

SpecCache == InitData /\ [][NextCache]_vars

(***************************************************************************)
(* DELETE /data/delete                                                     *)
(***************************************************************************)
\* the Authorization headers of the requests
Headers == {"Bearer tokA", "Bearer tokB", "tokA"}

\* str.replace(old, ""): every occurrence of old is removed, left to right
RECURSIVE StrRemove(_, _)
StrRemove(s, old) ==
    IF Len(s) < Len(old) THEN s
    ELSE IF SubSeq(s, 1, Len(old)) = old THEN StrRemove(SubSeq(s, Len(old) + 1, Len(s)), old)
    ELSE SubSeq(s, 1, 1) \o StrRemove(SubSeq(s, 2, Len(s)), old)

\* the athlete id of the profile of a token
AthleteId(t) == IF t = "tokA" THEN "u1" ELSE "u2"

\* user_id as the handlers derive it: str(user_profile['id']) of the profile
\* get_user_profile fetched, "unknown_user" when it returned None
HandlerUserIds(t) == {AthleteId(t), "unknown_user"}

DeletedMessage == "User data deletion completed (including Supabase data)"

\* delete_user_data: clear_data() without a user id, the workflow global of
\* main.py set to None, the files data/formatted_data.csv and chart.png
\* removed.  No call reaches the persistence backend.
delete_user_data(authorization) ==
    /\ IF ~StartsWith(authorization, "Bearer ")
       THEN /\ store_log' = StoreCall("delete_user_data", None, Nothing, "HTTPException 401")
            /\ UNCHANGED <<dm, chart_png>>
       ELSE \E user_id \in HandlerUserIds(StrRemove(authorization, "Bearer ")) :
            /\ dm' = ClearData(dm, "")
            /\ chart_png' = NoFile
            /\ store_log' = [StoreCall("delete_user_data", user_id, Some(DeletedMessage), None)
                               EXCEPT !.deleted = @ \cup {user_id}]
    /\ UNCHANGED <<supa, clock, data_refresh_in_progress, refreshes, not_store_vars>>

\* users store data, read it and delete it
NextDelete ==
    \/ \E data \in DataSets, u \in UserIds : set_processed_data(data, u)
    \/ \E u \in UserArgs : get_processed_data(u)
    \/ \E u \in UserIds : has_data(u)
    \/ \E authorization \in Headers : delete_user_data(authorization)

SpecDelete == InitData /\ [][NextDelete]_vars

(***************************************************************************)
(* Incremental loading: fetch the new activities, merge them with the      *)
(* stored data, validate, store.  The Strava API answers every page        *)
(* request with a status and a list, or the request raises.                *)
(***************************************************************************)
\* the pages a fetch asks for at most (max_pages)
MaxPages == 2

\* an activity as the Strava API returns it
Act(i, d, t) == [id |-> i, start_date_local |-> d, type |-> t]

\* the lists one page of the API may hold
ApiLists ==
    {<<>>,
     <<Act(3, Date3, "Run"), Act(2, Date2, "Run"), Act(1, Date1, "Run")>>,
     <<Act(1, Date1, "Run"), Act(2, Date2, "Run"), Act(3, Date3, "Run")>>,
     <<Act(4, Date3, "Ride"), Act(2, Date2, "Run")>>}

\* the outcomes of requests.get for one page
Responses ==
    {[raises |-> TRUE, status_code |-> 0, data |-> <<>>],
     [raises |-> FALSE, status_code |-> 500, data |-> <<>>]}
    \cup {[raises |-> FALSE, status_code |-> 200, data |-> l] : l \in ApiLists}

\* what the API answers page by page
Apis == [1..MaxPages -> Responses]

\* pd.to_datetime and datetime.fromisoformat of a start_date_local
ToDatetime(s) ==
    CASE s = Date1 -> 1
      [] s = Date2 -> 2
      [] s = Date3 -> 3

\* get_last_activity_date: the most recent start_date_local of the rows the
\* backend returned, None when it returned nothing or no row
get_last_activity_date(s, u, ok) ==
    LET existing_data == get_user_data(s, u, ok)
        dates(rows) == {ToDatetime(rows[i].start_date_local) : i \in 1..Len(rows)}
    IN  IF existing_data = Nothing \/ existing_data[1] = <<>>
        THEN Nothing
        ELSE Some(CHOOSE x \in dates(existing_data[1]) :
                     \A y \in dates(existing_data[1]) : x >= y)

\* the page loop of StravaDataService.get_activities
RECURSIVE GetPages(_, _, _, _)
GetPages(api, page, max_pages, activities) ==
    IF page > max_pages THEN activities
    ELSE IF api[page].raises \/ api[page].status_code # 200 \/ api[page].data = <<>>
    THEN activities
    ELSE GetPages(api, page + 1, max_pages, activities \o api[page].data)

get_activities(api, max_pages) == GetPages(api, 1, max_pages, <<>>)

\* the comparison of the filter, with >= for >
IsNewerOrSame(activity_date, last_activity_date) == activity_date >= last_activity_date

\* the comparison of the filter
IsNewer(activity_date, last_activity_date) == activity_date > last_activity_date

\* the filter loop over one page: it stops at the first activity that is not newer
RECURSIVE FilterPage(_, _)
FilterPage(data, last_activity_date) ==
    IF data = <<>> THEN <<>>
    ELSE IF IsNewer(ToDatetime(Head(data).start_date_local), last_activity_date)
    THEN <<Head(data)>> \o FilterPage(Tail(data), last_activity_date)
    ELSE <<>>

\* the page loop of fetch_new_activities
RECURSIVE FetchPages(_, _, _, _, _)
FetchPages(api, page, max_pages, last_activity_date, new_activities) ==
    IF page > max_pages THEN new_activities
    ELSE IF api[page].raises \/ api[page].status_code # 200 \/ api[page].data = <<>>
    THEN new_activities
    ELSE LET filtered_activities == FilterPage(api[page].data, last_activity_date)
         IN  IF filtered_activities = <<>>
             THEN new_activities
             ELSE FetchPages(api, page + 1, max_pages, last_activity_date,
                             new_activities \o filtered_activities)

\* what fetch_new_activities returns: with no last activity date, all
\* activities.  Nothing in its outer try raises, so the except clause that
\* falls back to get_activities is not entered.
FetchNewActivities(api, last_activity_date, max_pages) ==
    IF last_activity_date = Nothing
    THEN get_activities(api, max_pages)
    ELSE FetchPages(api, 1, max_pages, last_activity_date[1], <<>>)

fetch_new_activities(access_token, u) ==
    \E api \in Apis, ok \in BOOLEAN :
    LET last_activity_date == get_last_activity_date(supa, u, ok)
    IN  /\ store_log' = [StoreCall("fetch_new_activities", u,
                                   Some(FetchNewActivities(api, last_activity_date, MaxPages)),
                                   None)
                           EXCEPT !.arg = Some([all_activities |-> get_activities(api, MaxPages),
                                                last_activity_date |-> last_activity_date])]
        /\ UNCHANGED <<dm, supa, clock, chart_png, data_refresh_in_progress, refreshes,
                       not_store_vars>>

\* format_data: the running activities, as rows
format_data(data) ==
    LET activities == SelectSeq(data, LAMBDA activity : activity.type = "Run")
    IN  [i \in 1..Len(activities) |->
             Row(activities[i].id, activities[i].start_date_local)]

\* fix_data takes the name of a CSV file: pd.read_csv raises ValueError for
\* the DataFrame it is handed, and the function returns nothing
fix_data(file_name) == [raised |-> "ValueError", value |-> <<>>]

\* drop_duplicates(subset=['id'], keep='first')
RECURSIVE DropDuplicates(_, _)
DropDuplicates(rows, seen) ==
    IF rows = <<>> THEN <<>>
    ELSE IF Head(rows).id \in seen THEN DropDuplicates(Tail(rows), seen)
    ELSE <<Head(rows)>> \o DropDuplicates(Tail(rows), seen \cup {Head(rows).id})

\* sort_values('start_date_local', ascending=False)
RECURSIVE SortByDate(_)
SortByDate(rows) ==
    IF rows = <<>> THEN <<>>
    ELSE LET newest == CHOOSE i \in 1..Len(rows) :
                           \A j \in 1..Len(rows) :
                               \/ ToDatetime(rows[i].start_date_local)
                                      > ToDatetime(rows[j].start_date_local)
                               \/ /\ ToDatetime(rows[i].start_date_local)
                                         = ToDatetime(rows[j].start_date_local)
                                  /\ i <= j
         IN  <<rows[newest]>>
             \o SortByDate(SubSeq(rows, 1, newest - 1) \o SubSeq(rows, newest + 1, Len(rows)))

\* what merge_activities_data returns for the rows the backend returned
\* (existing) and the fetched activities: every exception ends in None
MergeActivitiesData(existing, new_activities) ==
    IF new_activities = <<>> THEN Nothing
    ELSE IF format_data(new_activities) = <<>> THEN Nothing
    ELSE LET new_df == fix_data(format_data(new_activities))
         IN  IF new_df.raised # None THEN Nothing
             ELSE IF existing = Nothing \/ existing[1] = <<>> THEN Some(new_df.value)
             ELSE Some(SortByDate(DropDuplicates(existing[1] \o new_df.value, {})))

\* the fetched lists handed to merge_activities_data
NewActivities ==
    ApiLists \cup {<<Act(4, Date3, "Ride")>>, <<Act(3, Date3, "Run")>>,
                   <<Act(3, Date3, "Run"), Act(3, Date3, "Run")>>}

merge_activities_data(u, new_activities) ==
    \E ok \in BOOLEAN :
    LET existing == get_user_data(supa, u, ok)
    IN  /\ store_log' = [StoreCall("merge_activities_data", u,
                                   MergeActivitiesData(existing, new_activities), None)
                           EXCEPT !.arg = Some([existing |-> existing,
                                                new_df |-> format_data(new_activities)])]
        /\ UNCHANGED <<dm, supa, clock, chart_png, data_refresh_in_progress, refreshes,
                       not_store_vars>>

\* df['id'].duplicated().sum() > 0
HasDuplicateIds(rows) == \E i, j \in 1..Len(rows) : i < j /\ rows[i].id = rows[j].id

\* validate_merged_data of a dataset: the rows carry the required columns and
\* their dates parse
validate_merged_data(rows) == rows # <<>> /\ ~HasDuplicateIds(rows)

\* whether each of the three reads of the backend succeeds during one
\* load_user_data_incremental; with no row to return, a read that fails and
\* one that succeeds both give None
LoadOks(s, u) ==
    LET oks == IF s.use_supabase /\ u \in DOMAIN s.user_data THEN BOOLEAN ELSE {TRUE}
    IN  [strategy : oks, last : oks, merge : oks]

\* the dictionary a failed load returns
LoadFailed(strategy, error) == [success |-> FALSE, strategy |-> strategy, error |-> error]

\* what load_user_data_incremental does to the data services; with validated
\* FALSE, a variant that stores the fetched running activities whatever the
\* merge and the validation gave
LoadUserDataIncremental(u, validated) ==
    \E api \in Apis, oks \in LoadOks(supa, u) :
    LET existing == get_user_data(supa, u, oks.strategy)
        fetch_strategy == IF existing # Nothing /\ existing[1] # <<>>
                          THEN "incremental" ELSE "full"
        new_activities ==
            FetchNewActivities(api, get_last_activity_date(supa, u, oks.last), MaxPages)
        merged_df == MergeActivitiesData(get_user_data(supa, u, oks.merge), new_activities)
        valid == merged_df # Nothing /\ validate_merged_data(merged_df[1])
        call(ret, exc) ==
            [StoreCall("load_user_data_incremental", u, Some(ret), exc)
               EXCEPT !.arg = Some([new_activities |-> new_activities,
                                    merged_df |-> merged_df, valid |-> valid])]
        store(rows) ==
            /\ dm' = SetUserData(dm, rows, u, clock)
            /\ \E ok \in BOOLEAN : supa' = store_user_data(supa, u, rows, ok)
            /\ store_log' = [call([success |-> TRUE, strategy |-> fetch_strategy,
                                   error |-> None], None)
                               EXCEPT !.cleared = @ \cup {u}, !.deleted = @ \ {u}]
    IN  /\ IF new_activities = <<>>
           THEN \* the result dictionary reads self._processed_data, which no
                \* DataManager has: AttributeError, caught by the except clause
                /\ store_log' = call(LoadFailed("incremental", "AttributeError"),
                                     "AttributeError")
                /\ UNCHANGED <<dm, supa>>
           ELSE IF ~validated /\ format_data(new_activities) # <<>>
           THEN store(format_data(new_activities))
           ELSE IF merged_df = Nothing
           THEN /\ store_log' = call(LoadFailed(fetch_strategy,
                                 "Failed to merge new activities with existing data"), None)
                /\ UNCHANGED <<dm, supa>>
           ELSE IF ~valid
           THEN /\ store_log' = call(LoadFailed(fetch_strategy, "Data validation failed"),
                                     None)
                /\ UNCHANGED <<dm, supa>>
           ELSE store(merged_df[1])

\* load_user_data_incremental storing without merge and validation
load_user_data_incremental_unvalidated(access_token, u) ==
    /\ LoadUserDataIncremental(u, FALSE)
    /\ UNCHANGED <<clock, chart_png, data_refresh_in_progress, refreshes, not_store_vars>>

load_user_data_incremental(access_token, u) ==
    /\ LoadUserDataIncremental(u, TRUE)
    /\ UNCHANGED <<clock, chart_png, data_refresh_in_progress, refreshes, not_store_vars>>

\* the user the incremental load is run for
LoadUsers == {"u1"}

\* data is stored for a user, fetched, merged and loaded incrementally
NextLoad ==
    \/ \E data \in DataSets, u \in LoadUsers : set_processed_data(data, u)
    \/ \E u \in LoadUsers : fetch_new_activities("tokA", u)
    \/ \E u \in LoadUsers, new_activities \in NewActivities :
           merge_activities_data(u, new_activities)
    \/ \E u \in LoadUsers : load_user_data_incremental("tokA", u)

SpecLoad == InitData /\ [][NextLoad]_vars

(***************************************************************************)
(* POST /data/refresh.  The handler is a coroutine without an await: the   *)
(* event loop runs it from its first statement to its last before it       *)
(* starts the handler of another request.                                  *)
(***************************************************************************)
\* the positions of a request inside refresh_user_data: past the check of the
\* flag, and at the raise or the return that ends the try block
InHandler == {"past_check", "raise_http", "raise_other", "returning"}

\* the positions of a request that is answered
Answered == {"in_progress_response", "http_error", "server_error", "refreshed"}

\* what get_user_profile returns: the athlete with its id, None, or a
\* document without an id
Profiles == {"athlete", "none", "no_id"}

\* the request reaches the handler: with the flag set it is answered "Data
\* refresh already in progress"; otherwise it sets the flag
refresh_enter(r) ==
    /\ refreshes[r] \in {"none"} \cup Answered
    /\ \A other \in RefreshRequests : refreshes[other] \notin InHandler
    /\ IF data_refresh_in_progress
       THEN /\ refreshes' = [refreshes EXCEPT ![r] = "in_progress_response"]
            /\ UNCHANGED data_refresh_in_progress
       ELSE /\ refreshes' = [refreshes EXCEPT ![r] = "past_check"]
            /\ data_refresh_in_progress' = TRUE
    /\ UNCHANGED <<dm, supa, store_log, clock, chart_png, not_store_vars>>

\* the try block: header, profile, check_data_freshness (which reads only),
\* the incremental load, and after a successful load the dataset from memory
\* and the new workflow
refresh_body(r, authorization) ==
    /\ refreshes[r] = "past_check"
    /\ IF ~StartsWith(authorization, "Bearer ")
       THEN /\ refreshes' = [refreshes EXCEPT ![r] = "raise_http"]
            /\ UNCHANGED <<dm, supa, store_log>>
       ELSE \E profile \in Profiles :
            IF profile = "no_id"
            THEN /\ refreshes' = [refreshes EXCEPT ![r] = "raise_other"]
                 /\ UNCHANGED <<dm, supa, store_log>>
            ELSE /\ LoadUserDataIncremental(
                        IF profile = "athlete"
                        THEN AthleteId(StrRemove(authorization, "Bearer "))
                        ELSE "unknown_user", TRUE)
                 /\ refreshes' = [refreshes EXCEPT ![r] =
                        IF store_log'.ret[1].success THEN "returning" ELSE "raise_http"]
    /\ UNCHANGED <<data_refresh_in_progress, clock, chart_png, not_store_vars>>

\* the end of the handler, with the flag left set when an HTTPException ends it
refresh_exit_keeps_flag(r) ==
    /\ refreshes[r] \in {"raise_http", "raise_other", "returning"}
    /\ refreshes' = [refreshes EXCEPT ![r] =
            CASE refreshes[r] = "raise_http"  -> "http_error"
              [] refreshes[r] = "raise_other" -> "server_error"
              [] refreshes[r] = "returning"   -> "refreshed"]
    /\ data_refresh_in_progress' = (refreshes[r] = "raise_http")
    /\ UNCHANGED <<dm, supa, store_log, clock, chart_png, not_store_vars>>

\* the end of the handler: the except clauses and the finally clause set the
\* flag to False, and the request is answered
refresh_exit(r) ==
    /\ refreshes[r] \in {"raise_http", "raise_other", "returning"}
    /\ refreshes' = [refreshes EXCEPT ![r] =
            CASE refreshes[r] = "raise_http"  -> "http_error"
              [] refreshes[r] = "raise_other" -> "server_error"
              [] refreshes[r] = "returning"   -> "refreshed"]
    /\ data_refresh_in_progress' = FALSE
    /\ UNCHANGED <<dm, supa, store_log, clock, chart_png, not_store_vars>>

\* the refresh requests of two clients
NextRefresh ==
    \/ \E r \in RefreshRequests : refresh_enter(r)
    \/ \E r \in RefreshRequests, authorization \in Headers : refresh_body(r, authorization)
    \/ \E r \in RefreshRequests : refresh_exit(r)

SpecRefresh == InitData /\ [][NextRefresh]_vars

(***************************************************************************)
(* POST /query from the Authorization header to the call of run_workflow.  *)
(* The workflow's dataset df stands for the rows the data manager holds    *)
(* for the user.                                                           *)
(***************************************************************************)
\* the Authorization headers of the queries: a token with the default limit,
\* the token without the scheme, the scheme without a token, and an empty header
QueryHeaders == {"Bearer tokB", "tokB", "Bearer ", ""}

\* rate_limiter.record_query(access_token): the limiter after the call and
\* what the call returned
RecordQuery(lim, t, name, now) ==
    IF t = "" THEN [limiter |-> lim, ok |-> FALSE]
    ELSE LET started == IF t \notin DOMAIN lim.query_counts
                        THEN [lim EXCEPT !.query_counts = Put(@, t, 0),
                                         !.session_start_times = Put(@, t, now)]
                        ELSE lim
             cached == CacheLimit(started, t, name)
             ok == BelowLimit(cached.query_counts[t], UserMaxQueries(started, t, name))
         IN  [limiter |-> IF ok THEN [cached EXCEPT !.query_counts[t] = @ + 1] ELSE cached,
              ok |-> ok]

\* the request is answered with an HTTPException before run_workflow is called
QueryRejected(status_code) ==
    /\ http' = [NoHttp EXCEPT !.status_code = status_code]
    /\ UNCHANGED <<pc, state, trace, calls, writes, executed, raised, result, runs, prev>>

\* process_query up to the call of run_workflow; with header_first FALSE, a
\* variant that records the query before it looks at the header
QueryRequest(authorization, q, header_first) ==
    LET access_token == StrRemove(authorization, "Bearer ")
        malformed == ~StartsWith(authorization, "Bearer ") \/ access_token = ""
    IN  /\ pc = "idle"
        /\ \E name \in ProfileNames(access_token), user_id \in HandlerUserIds(access_token) :
           LET recorded == RecordQuery(limiter, access_token, name, clock)
               call == [LimiterCall("record_query", access_token, Bool(recorded.ok)) EXCEPT
                          !.allowed = IF recorded.ok
                                      THEN [@ EXCEPT ![access_token] = @ + 1] ELSE @]
           IN  IF malformed
               THEN /\ QueryRejected(401)
                    /\ limiter' = IF header_first THEN limiter ELSE recorded.limiter
                    /\ UNCHANGED <<limiter_log, store_log>>
               ELSE IF ~recorded.ok
               THEN \* get_remaining_queries, for the detail of the 429
                    /\ QueryRejected(429)
                    /\ limiter' = CacheLimit(recorded.limiter, access_token, name)
                    /\ limiter_log' =
                          LimiterCall("get_remaining_queries", access_token,
                              ToString(IF UserMaxQueries(recorded.limiter, access_token, name)
                                              > recorded.limiter.query_counts[access_token]
                                       THEN UserMaxQueries(recorded.limiter, access_token, name)
                                                - recorded.limiter.query_counts[access_token]
                                       ELSE 0))
                    /\ UNCHANGED store_log
               ELSE IF ~(user_id \in DOMAIN dm.user_data /\ dm.user_data[user_id] # <<>>)
               THEN \* check_data_file
                    /\ QueryRejected(404)
                    /\ limiter' = recorded.limiter
                    /\ limiter_log' = call
                    /\ store_log' = StoreCall("has_data", user_id, Some(FALSE), None)
               ELSE \* get_processed_data finds the rows in memory; run_workflow starts
                    /\ runs < MaxRuns
                    /\ limiter' = recorded.limiter
                    /\ limiter_log' = call
                    /\ store_log' = StoreCall("get_processed_data", user_id,
                                              Some(dm.user_data[user_id]), None)
                    /\ state' = InitialState(q)
                    /\ prev' = NoPrev
                    /\ pc' = "analyze_query"
                    /\ runs' = runs + 1
                    /\ trace' = <<>>
                    /\ calls' = <<>>
                    /\ writes' = <<>>
                    /\ executed' = NotExecuted
                    /\ raised' = None
                    /\ result' = NoResult
                    /\ http' = NoHttp
        /\ UNCHANGED <<df, chart_png, gcf, current_chart_data, fence_case, worker_vars, clock,
                       dm, supa, data_refresh_in_progress, refreshes>>

\* process_query recording the query before the header is checked
query_request_counts_first(authorization, q) == QueryRequest(authorization, q, FALSE)

query_request(authorization, q) == QueryRequest(authorization, q, TRUE)

\* the process has served its earlier requests and holds no data yet
InitQuery ==
    /\ pc = "idle"
    /\ state = InitialState("")
    /\ df = Distances
    /\ chart_png = NoFile
    /\ gcf = "clear"
    /\ trace = <<>>
    /\ calls = <<>>
    /\ writes = <<>>
    /\ executed = NotExecuted
    /\ raised = None
    /\ result = NoResult
    /\ http = NoHttp
    /\ current_chart_data = None
    /\ runs = MaxRuns - 1
    /\ prev = NoPrev
    /\ fence_case = NoCase
    /\ ServicesInit
    /\ StoreInit(FALSE)

\* between two requests, the user of the token who has no data yet loads it
store_between_requests ==
    /\ pc = "idle"
    /\ AthleteId("tokB") \notin DOMAIN dm.user_data
    /\ \E data \in DataSets : set_processed_data(data, AthleteId("tokB"))

\* queries with their headers, and the workflow of an admitted query
NextQuery ==
    \/ \E authorization \in QueryHeaders, q \in Queries : query_request(authorization, q)
    \/ store_between_requests
    \/ analyze_query \/ enhance_query \/ analyze_query_conditional
    \/ prepare_graphs \/ prepare_data \/ verify_graphs \/ verify_code
    \/ graph_data \/ analyze_data \/ final_response \/ run_workflow_return
    \/ process_query \/ process_query_error

SpecQuery == InitQuery /\ [][NextQuery]_vars

(***************************************************************************)
(* Properties                                                              *)
(***************************************************************************)
ChartOrder ==
    <<"analyze_query", "enhance_query", "prepare_graphs", "verify_graphs", "graph_data",
      "final_response">>

DataOrder ==
    <<"analyze_query", "enhance_query", "prepare_data", "verify_code", "analyze_data",
      "final_response">>

Range(q) == {q[i] : i \in 1..Len(q)}

IsPrefix(p, q) == Len(p) <= Len(q) /\ SubSeq(q, 1, Len(p)) = p

\* graph.invoke of the running (or last) query returned
Completed == pc \in {"return", "returned"} \/ (pc = "idle" /\ http.status_code = 200)

CallsOf(kind) == SelectSeq(calls, LAMBDA c : c.kind = kind)

WritesBy(node) == SelectSeq(writes, LAMBDA w : w[1] = node)

\* the classifier answered, and its answer names a chart
Classified == CallsOf("classify") # <<>> /\ CallsOf("classify")[1].response # Raised

ClassifiedChart == Classified /\ Contains(Lower(CallsOf("classify")[1].response), "chart")

ClassifiedData == Classified /\ ~Contains(Lower(CallsOf("classify")[1].response), "chart")

\* C1: the nodes a query has executed so far are always an initial part of
\* the chart order or of the data order, and once the graph has completed
\* they are exactly one of the two orders (each node once, never nodes of
\* both branches).
C1_NodeOrder ==
    /\ IsPrefix(trace, ChartOrder) \/ IsPrefix(trace, DataOrder)
    /\ Completed => trace \in {ChartOrder, DataOrder}

C1_Witness == pc = "returned" /\ trace = ChartOrder

\* C2: when the graph has completed, the chart branch has chart_code and
\* chart_output set and code and output still None, the data branch has code
\* and output set and chart_code and chart_output still None, and the branch
\* is the one the classifier's answer chose.
C2_BranchFields ==
    Completed =>
        /\ ClassifiedChart =>
             /\ state.chart_code # None /\ state.chart_output # None
             /\ state.code = None /\ state.output = None
        /\ ClassifiedData =>
             /\ state.code # None /\ state.output # None
             /\ state.chart_code = None /\ state.chart_output = None
        /\ (state.chart_output # None) # (state.output # None)

C2_Witness == pc = "returned" /\ ClassifiedData /\ state.output # None /\ state.chart_code = None

\* C3: in one query the verifier makes at most one judgment call and at most
\* one corrective call, writes the code at most once, and makes no judgment
\* call after the corrective call.
C3_VerifierBound ==
    /\ Len(CallsOf("verify")) <= 1
    /\ Len(CallsOf("correct")) <= 1
    /\ Len(WritesBy("verify_graphs")) + Len(WritesBy("verify_code")) <= 1
    /\ \A i, j \in 1..Len(calls) :
         (i < j /\ calls[i].kind = "correct") => calls[j].kind # "verify"

\* the corrected code is still wrong (it raises) and runs unexamined
C3_Witness ==
    /\ pc = "returned"
    /\ CallsOf("correct") # <<>>
    /\ CallsOf("correct")[1].response = DivCode
    /\ executed.exc # NoExc

\* the verifier node and the code field of the branch taken
VerifierNode == IF ClassifiedChart THEN "verify_graphs" ELSE "verify_code"

GeneratorNode == IF ClassifiedChart THEN "prepare_graphs" ELSE "prepare_data"

CodeField == IF ClassifiedChart THEN "chart_code" ELSE "code"

\* the verifier received a judgment
Judged == CallsOf("verify") # <<>> /\ CallsOf("verify")[1].response # Raised

\* C4: once the verifier has its judgment: if the judgment lower-cased is
\* exactly "valid" there is no corrective call and the stored code is the
\* generator's; otherwise there is a corrective call and, if it answered, the
\* stored code is its answer.
C4_ExactValid ==
    Judged =>
        IF Lower(CallsOf("verify")[1].response) = "valid"
        THEN /\ CallsOf("correct") = <<>>
             /\ WritesBy(VerifierNode) = <<>>
             /\ state[CodeField] = WritesBy(GeneratorNode)[1][3]
        ELSE /\ Len(CallsOf("correct")) = 1
             /\ CallsOf("correct")[1].response # Raised =>
                  /\ state[CodeField] = CallsOf("correct")[1].response
                  /\ WritesBy(VerifierNode) =
                       <<Write(VerifierNode, CodeField, CallsOf("correct")[1].response)>>

\* "valid" followed by a newline is not accepted: the code is replaced
C4_Witness ==
    /\ pc = "returned"
    /\ CallsOf("verify")[1].response = "valid\n"
    /\ state.code = DivCode
    /\ WritesBy("prepare_data")[1][3] = SumCode

\* the data executor ran code that raised
DataExecRaised == executed.ran /\ executed.exc # NoExc /\ ClassifiedData

UnguardedKinds == {"enhance", "classify", "verify", "correct", "synthesize"}

FailedUnguarded ==
    {i \in 1..Len(calls) : calls[i].response = Raised /\ calls[i].kind \in UnguardedKinds}

C7_OutputIsStdout ==
    (pc = "returned" /\ ClassifiedData /\ executed.ran /\ executed.exc = NoExc) =>
        /\ result.code_output = executed.stdout
        /\ ~result.chart_generated

\* the chart executor obtained an encoded artifact: the code ran, and the
\* file was read back or the current figure was captured
ArtifactEncoded ==
    /\ executed.ran /\ executed.exc = NoExc
    /\ executed.file_read = "ok" \/ executed.mem_capture = "ok"

HasFailurePrefix(t) ==
    StartsWith(t, "Chart generation failed") \/ StartsWith(t, "Error executing chart code")

\* C8: in the record returned, chart_generated is true exactly when
\* chart_output is set and has neither failure prefix; a chart-branch run
\* without an encoded artifact has a failure prefix in chart_output;
\* chart_generated is true only on the chart branch with an encoded artifact
\* and false on the data branch.
C8_ChartGeneratedFlag ==
    pc = "returned" =>
        /\ result.chart_generated <=>
             (state.chart_output # None /\ ~HasFailurePrefix(state.chart_output))
        /\ (ClassifiedChart /\ ~ArtifactEncoded) => HasFailurePrefix(state.chart_output)
        /\ result.chart_generated => (ClassifiedChart /\ ArtifactEncoded)
        /\ ClassifiedData => ~result.chart_generated

C8_Witness ==
    /\ pc = "returned"
    /\ result.chart_generated
    /\ state.chart_output = B64Encode(PngOf("plot"))

\* C9: when the chart branch produced an artifact, the payload is in the
\* record run_workflow returns, and POST /query answers with it in chart_data
\* and keeps it in current_chart_data.
C9_PayloadReachesCaller ==
    /\ (pc = "returned" /\ result.chart_generated) =>
         Get(result, "chart_output") = state.chart_output
    /\ (pc = "idle" /\ http.status_code = 200 /\ http.chart_generated) =>
         /\ http.chart_data = state.chart_output
         /\ current_chart_data = state.chart_output

\* C10: when the chart code ran without raising and chart.png is absent or
\* cannot be read, the in-memory capture of the current figure is attempted,
\* and a "Chart generation failed" text is stored only if that capture failed
\* too.
C10_FallbackOnMissingArtifact ==
    (ClassifiedChart /\ executed.ran /\ executed.exc = NoExc
       /\ executed.file_read \in {"absent", "error"}) =>
        /\ executed.mem_capture # "not_tried"
        /\ StartsWith(state.chart_output, "Chart generation failed") =>
             executed.mem_capture = "failed"

\* the enhancer's provider call failed
EnhancerFailed == CallsOf("enhance") # <<>> /\ CallsOf("enhance")[1].response = Raised

\* C11: when the enhancer's provider call fails, enhance_query does not raise
\* and enhanced_query holds a placeholder string.
C11_EnhancerTolerates ==
    EnhancerFailed => (raised # "enhance_query" /\ state.enhanced_query # None)

GeneratorNodes == {"prepare_graphs", "prepare_data"}

\* the provider call a generator just made failed
GeneratorJustFailed == calls' # <<>> /\ calls'[Len(calls')] = Call("generate", Raised)

\* a generator step goes to its verifier without raising; after a failed
\* call only the code field of the branch changed, to a one-line comment
GeneratorStep ==
    pc \in GeneratorNodes =>
    LET field == IF pc = "prepare_graphs" THEN "chart_code" ELSE "code"
    IN  /\ pc' = (IF pc = "prepare_graphs" THEN "verify_graphs" ELSE "verify_code")
        /\ raised' = None
        /\ GeneratorJustFailed =>
             (/\ StartsWith(state'[field], "#")
              /\ IsComment(state'[field])
              /\ \A f \in DOMAIN state \ {field} : state'[f] = state[f])

C13_OnlyClassifierPropagates ==
    /\ raised # None => raised = "analyze_query_conditional"
    /\ \A i \in 1..Len(calls) :
         (calls[i].response = Raised /\ calls[i].kind # "classify") => raised = None

CallKinds == {"classify", "enhance", "generate", "verify", "correct", "synthesize"}

\* C19: every provider call is one of the six kinds; a completed run has made
\* exactly one classify, enhance, generate, verify and synthesize call and at
\* most one corrective call, between 5 and 7 calls in all.
C19_CallCount ==
    /\ \A i \in 1..Len(calls) : calls[i].kind \in CallKinds
    /\ Completed =>
         /\ \A k \in CallKinds \ {"correct"} : Len(CallsOf(k)) = 1
         /\ Len(CallsOf("correct")) <= 1
         /\ Len(calls) \in 5..7

\* a completed run with the corrective call
C19_Witness == pc = "returned" /\ Len(calls) = 6 /\ Len(CallsOf("correct")) = 1

\* the field a node may write
OwnField(node) ==
    CASE node = "enhance_query" -> "enhanced_query"
      [] node \in {"prepare_graphs", "verify_graphs"} -> "chart_code"
      [] node \in {"prepare_data", "verify_code"} -> "code"
      [] node = "graph_data" -> "chart_output"
      [] node = "analyze_data" -> "output"
      [] node = "final_response" -> "response"
      [] OTHER -> None

\* the step changes no field but the one of the node taking it
OwnFieldOnly ==
    pc # "idle" => \A f \in DOMAIN state : state'[f] # state[f] => f = OwnField(pc)

\* C20: a step of a running query changes no field of the workflow state
\* other than the field of the node that takes the step; messages, overview
\* and the dataset handle are changed by no node.
C20_DisjointFields == [][OwnFieldOnly]_vars

\* a completed run in which generator, verifier, executor and synthesizer wrote
C20_Witness ==
    /\ pc = "returned"
    /\ Len(writes) = 5
    /\ state.messages = <<"total distance?">>
    /\ state.overview = Overview
    /\ state.df = "df"

\* C14: the dataset object, which the data manager holds and hands to later
\* queries, always has the contents it had before the first run.
C14_DatasetNeverMutated == df = Distances

\* the sentence of the enhancer's prompt that carries the lexical hint
HintSentence == "The next step is "

\* C17: the generator a run goes to is the one the classifier's response
\* names, whatever the query contains; the keyword hint computed from the
\* query appears in the enhancer's prompt and in no other prompt.
C17_ClassifierDecides ==
    /\ (Classified /\ Len(trace) >= 3) =>
          trace[3] = (IF Contains(Lower(CallsOf("classify")[1].response), "chart")
                      THEN "prepare_graphs" ELSE "prepare_data")
    /\ \A i \in 1..Len(calls) :
          IF calls[i].kind = "enhance"
          THEN Contains(calls[i].prompt,
                        HintSentence \o NextStepHint(LastQuery(state)) \o ".")
          ELSE ~Contains(calls[i].prompt, HintSentence)

\* the query asks for a chart in words, the classifier answered "data", and
\* the run went to the data generator
C17_Witness ==
    /\ Contains(Lower(LastQuery(state)), "chart")
    /\ Classified /\ CallsOf("classify")[1].response = "data"
    /\ Len(trace) >= 3 /\ trace[3] = "prepare_data"
    /\ Contains(calls[1].prompt, "The next step is graph_data.")

\* contents the executors can leave in output and chart_output
AltContents ==
    {"24.1\n", "ZeroDivisionError('division by zero')", "iVBORw==",
     "Chart generation failed: No output captured",
     "Error executing chart code: division by zero"}

\* C18: the prompt sent to the synthesizer is the one any other contents of
\* output and chart_output with the same two existence flags would give.
C18_SynthesizerSeesFlagsOnly ==
    \A i \in 1..Len(calls) :
       calls[i].kind = "synthesize" =>
          \A o, c \in AltContents \cup {None} :
             ((o = None) = (state.output = None) /\ (c = None) = (state.chart_output = None))
             => calls[i].prompt = SynthPrompt([state EXCEPT !.output = o, !.chart_output = c])

\* the synthesizer was called after the executed code raised
C18_Witness ==
    /\ CallsOf("synthesize") # <<>>
    /\ state.output = "ZeroDivisionError('division by zero')"
    /\ Contains(CallsOf("synthesize")[1].prompt, "Code output exists: True")
    /\ Contains(CallsOf("synthesize")[1].prompt, "Chart output exists: False")

\* C15: a run that repeats a completed run (same query, same provider
\* responses, same dataset handle) returns the same textual output and the
\* same chart_generated value as the run it repeats.
C15_RepeatedRunIdentical ==
    (prev.active /\ pc = "returned") =>
       /\ result.code_output = prev.code_output
       /\ result.chart_generated = prev.chart_generated

\* the code the generator stored is still the code of the fence-stripping case
StoredAsGenerated ==
    /\ fence_case # NoCase
    /\ executed.ran
    /\ Wrap(fence_case.body, fence_case.tag)
          = (IF "graph_data" \in Range(trace) THEN state.chart_code ELSE state.code)

\* C16: code wrapped in a fence, with any language tag or none, or not
\* wrapped at all, reaches exec as the code itself, and its execution raises
\* and prints what the execution of the code itself raises and prints.
C16_FenceStrippingExact ==
    StoredAsGenerated =>
       LET o == Exec(fence_case.body, "graph_data" \in Range(trace), Distances, NoFile, "clear")
       IN  /\ executed.code = fence_case.body
           /\ executed.exc = o.exc
           /\ executed.stdout = o.stdout

\* C21: a request that read chart.png back returns the encoding of the bytes
\* written last to the shared path before its read, by the code of whichever
\* request wrote them, not necessarily its own.
C21_SharedArtifactLastWriterWins ==
    \A w \in Workers :
       (workers[w].pc = "done" /\ workers[w].read_at > 0) =>
          workers[w].chart_output = B64Encode(artifact_log[workers[w].read_at][2])

\* the code of w1 wrote its image, the code of w2 overwrote it before w1 read
\* the file back, and w1 returned the image of w2
C21_Witness ==
    /\ workers["w1"].pc = "done"
    /\ workers["w1"].chart_code = SaveCode
    /\ artifact_log = << <<"w1", PngOf("plot")>>, <<"w2", PngOf("pace")>> >>
    /\ workers["w1"].read_at = 2
    /\ workers["w1"].chart_output = B64Encode(PngOf("pace"))

Session(lim, t) ==
    <<GetOr(lim.query_counts, t, -1), GetOr(lim.session_start_times, t, -1),
      GetOr(lim.user_max_queries, t, -1)>>

\* the step is a call of the rate limiter for one token
TokenCall(op) == limiter_log'.op = op /\ clock' = clock /\ limiter_log' # limiter_log

TokenOps ==
    {"can_make_query", "record_query", "get_remaining_queries", "get_query_count",
     "reset_user_queries", "get_session_info"}

ResetStep ==
    /\ TokenCall("reset_user_queries") =>
          Session(limiter', limiter_log'.token) = <<-1, -1, -1>>
    /\ (TokenCall("record_query") /\ limiter_log'.token # ""
           /\ limiter_log'.token \notin DOMAIN limiter.query_counts) =>
          /\ limiter'.query_counts[limiter_log'.token] = 1
          /\ limiter'.session_start_times[limiter_log'.token] = clock
    /\ \A op \in TokenOps :
          TokenCall(op) =>
             \A u \in Tokens \ {limiter_log'.token} : Session(limiter', u) = Session(limiter, u)

\* C23: reset_user_queries(t) leaves no count, start time or limit of t; the
\* first record_query(t) without a session starts one with count 1 at the
\* current time; a call for token t changes nothing stored for another token.
C23_IndependentSessions == [][ResetStep]_vars

\* tokA was reset and started a new session while tokB stays exhausted
C23_Witness ==
    /\ limiter_log.op = "record_query" /\ limiter_log.token = "tokA"
    /\ "tokA" \in limiter_log.was_reset
    /\ Session(limiter, "tokA") = <<1, 1, MaxQueries>>
    /\ Session(limiter, "tokB") = <<MaxQueries, 0, MaxQueries>>

RecordQueryStep ==
    TokenCall("record_query") =>
       LET t == limiter_log'.token
           before == GetOr(limiter.query_counts, t, 0)
           after == GetOr(limiter'.query_counts, t, 0)
       IN  IF t = ""
           THEN limiter_log'.ret = "False" /\ limiter' = limiter
           ELSE /\ limiter_log'.ret = Bool(before < limiter'.user_max_queries[t])
                /\ after = (IF limiter_log'.ret = "True" THEN before + 1 ELSE before)

\* C28: record_query(t) returns True and adds exactly 1 to the count of t iff
\* t is not empty and its count is below its limit; otherwise it returns
\* False with the count unchanged, and for the empty token nothing is stored.
C28_RecordQueryExact == [][RecordQueryStep]_vars

\* the fourth query of an ordinary user was rejected and not counted
C28_Witness ==
    /\ limiter_log.op = "record_query" /\ limiter_log.token = "tokB"
    /\ limiter_log.ret = "False"
    /\ limiter.query_counts["tokB"] = MaxQueries
    /\ "" \notin DOMAIN limiter.query_counts

\* C24: after set_processed_data(data, user) has returned and until the next
\* set_cached_user_stats or set_cached_data_overview for that user,
\* get_cached_user_stats(user) and get_cached_data_overview(user) return None,
\* also when the persistence backend is available.
C24_SetClearsCaches ==
    (/\ store_log.op \in {"get_cached_user_stats", "get_cached_data_overview"}
     /\ store_log.user \in store_log.cleared)
        => store_log.ret = Nothing

\* C27: once DELETE /data/delete has completed for a user and until data is
\* stored for that user again, the user's data is in neither the data manager's
\* memory nor the persistence backend, get_processed_data(user) returns None
\* and has_data(user) returns False.
C27_DeleteRemovesData ==
    /\ \A u \in store_log.deleted :
           u \notin DOMAIN dm.user_data /\ u \notin DOMAIN supa.user_data
    /\ (store_log.op = "get_processed_data" /\ store_log.user \in store_log.deleted)
           => store_log.ret = Nothing
    /\ (store_log.op = "has_data" /\ store_log.user \in store_log.deleted)
           => store_log.ret = Some(FALSE)

IdsOf(rows) == {rows[i].id : i \in 1..Len(rows)}

\* the rows stored for a user in the persistence backend
StoredRows(u) == IF u \in DOMAIN supa.user_data THEN supa.user_data[u] ELSE <<>>

\* every activity of the list is strictly newer than the date and has none of the ids
OnlyNewer(activities, date, ids) ==
    \A i \in 1..Len(activities) :
        /\ ToDatetime(activities[i].start_date_local) > date
        /\ activities[i].id \notin ids

LoadStep ==
    store_log'.op = "load_user_data_incremental"
        => /\ (dm'.user_data # dm.user_data \/ supa'.user_data # supa.user_data)
                  => store_log'.arg[1].valid
           /\ (~store_log'.arg[1].valid \/ store_log'.raised # None)
                  => /\ store_log'.ret[1].success = FALSE
                     /\ dm' = dm
                     /\ supa' = supa

InProgressStep ==
    \A r \in RefreshRequests :
        (refreshes'[r] = "in_progress_response" /\ refreshes'[r] # refreshes[r])
            => /\ data_refresh_in_progress
               /\ data_refresh_in_progress'
               /\ UNCHANGED <<dm, supa, store_log>>

\* at most one request is past the in-progress check, and the flag is set
\* only while one is
FlagInvariant ==
    /\ Cardinality({r \in RefreshRequests : refreshes[r] \in InHandler}) <= 1
    /\ data_refresh_in_progress => \E r \in RefreshRequests : refreshes[r] \in InHandler

NothingNewStep ==
    (store_log'.op = "load_user_data_incremental"
     /\ store_log'.arg[1].new_activities = <<>>)
        => /\ store_log'.ret[1].success = TRUE
           /\ store_log'.raised = None
           /\ dm' = dm
           /\ supa' = supa

\* C31: when fetch_new_activities returns no activities,
\* load_user_data_incremental returns success True ("No new activities
\* found", new_activities 0) and leaves the stored data unchanged, so the
\* refresh does not end as a failed refresh.
C31_NothingNewSucceeds == [][NothingNewStep]_vars

\* the rows are ordered by start_date_local from most recent to oldest
NewestFirst(rows) ==
    \A i, j \in 1..Len(rows) :
        i < j => ToDatetime(rows[i].start_date_local) >= ToDatetime(rows[j].start_date_local)

\* the first row of the id among the rows
FirstRowOf(rows, id) == rows[CHOOSE i \in 1..Len(rows) :
                                 rows[i].id = id /\ \A j \in 1..(i - 1) : rows[j].id # id]

\* C32: when the backend returned existing data, the dataset that
\* merge_activities_data returns for new running activities has as its ids
\* the existing ids and the new running-activity ids, keeps the existing row
\* of an id present in both, and is ordered by start_date_local from most
\* recent to oldest.
C32_MergeUnionKeepsExisting ==
    (/\ store_log.op = "merge_activities_data"
     /\ store_log.arg[1].new_df # <<>>
     /\ store_log.arg[1].existing # Nothing
     /\ store_log.arg[1].existing # Some(<<>>))
        => /\ store_log.ret # Nothing
           /\ IdsOf(store_log.ret[1])
                  = IdsOf(store_log.arg[1].existing[1]) \cup IdsOf(store_log.arg[1].new_df)
           /\ \A i \in 1..Len(store_log.ret[1]) :
                  store_log.ret[1][i].id \in IdsOf(store_log.arg[1].existing[1])
                      => store_log.ret[1][i]
                             = FirstRowOf(store_log.arg[1].existing[1], store_log.ret[1][i].id)
           /\ NewestFirst(store_log.ret[1])

\* a step that answers a query with 401 or 429: no count of the rate limiter
\* changes, and neither the workflow nor the provider is called
RejectedStep ==
    (pc = "idle" /\ pc' = "idle" /\ http'.status_code \in {401, 429})
        => /\ limiter'.query_counts = limiter.query_counts
           /\ UNCHANGED <<state, trace, calls, runs>>

\* C33: in POST /query, a request rejected for a malformed or empty
\* Authorization header (401) changes no rate-limit count, and a request
\* rejected as rate limited (429) never invokes the workflow or the provider
\* and changes no count.
C33_RejectedQueryCountsNothing == [][RejectedStep]_vars

\* the token has used its three queries and its next query was answered 429
C33_Witness ==
    /\ pc = "idle"
    /\ http.status_code = 429
    /\ "tokB" \in DOMAIN limiter.query_counts
    /\ limiter.query_counts["tokB"] = MaxQueries

====
